---- MODULE Spec2Model ----
(***************************************************************************)
(* otel-logger: the batch accumulator (LogBatcher), the multiline          *)
(* reassembler (multilineLogIterator), the field-mapped extractor          *)
(* (JSONExtractor.ParseLogEntry) and the stream capture coordinator        *)
(* (executeCommand / processStream).                                       *)
(*                                                                         *)
(* Every component has its own variables; a specification initialises the  *)
(* component it is about and parks the others in their idle state.         *)
(***************************************************************************)
EXTENDS Integers, Sequences, FiniteSets, TLC

\* ------------------------------------------------------------------ bounds
MaxBatchSize == 2      \* largest maxSize handed to NewLogBatcher
MaxCalls == 5          \* API calls made by the single caller
MaxAddsPerProducer == 2 \* Add calls of one concurrent producer
MaxTicks == 2          \* timer ticks delivered to flushLoop
MaxLines == 3          \* lines of one input stream
MaxLineLen == 2        \* characters of one line
MaxParses == 2         \* calls of ParseLogEntry on one entry
MaxClockTicks == 1     \* seconds the wall clock advances during a run
MaxPieces == 3         \* pieces of the text of one entry
MaxChildLines == 2     \* lines the child writes to its two streams together
MaxSignals == 2        \* termination signals that reach the host process

\* ------------------------------------------------------------- LogBatcher
VARIABLES
  maxSize,       \* LogBatcher.maxSize
  timerOn,       \* flushInterval > 0, i.e. LogBatcher.ticker != nil
  arr,           \* backing array of LogBatcher.entries (0 = nil pointer)
  blen,          \* len(LogBatcher.entries), the slice header's length
  tickPending,   \* a tick waits in ticker.C (channel of capacity 1)
  tickerStopped, \* ticker.Stop() was called
  doneClosed,    \* close(b.done) was called
  pc,            \* position of every goroutine that uses the batcher
  op,            \* API call a goroutine is executing
  loc,           \* locals of the call: e (entry), l, n, batch
  ret,           \* value returned by the goroutine's last completed call
  failMode,      \* behaviour of the flushFunc supplied by the caller
  sent,          \* invocations of flushFunc, in order
  added,         \* records passed to Add, in call order
  ops,           \* API calls begun, in order
  callsLeft,     \* API calls a goroutine may still make
  ticks          \* ticks fired so far

bvars == <<maxSize, timerOn, arr, blen, tickPending, tickerStopped, doneClosed,
           pc, op, loc, ret, failMode, sent, added, ops, callsLeft,
           ticks>>

\* --------------------------------------------------- multilineLogIterator
VARIABLES
  pattern,       \* Config.ContinuationPattern
  input,         \* the lines the reader holds, as bufio.Scanner splits them
  failAt,        \* lines delivered before the reader fails (-1: never fails)
  stopAfter,     \* entries after which the consumer breaks (-1: never)
  scanned,       \* lines scanner.Scan() has returned so far
  scanErr,       \* scanner.Err() is not nil
  currentEntry,  \* the strings.Builder currentEntry
  yielded,       \* entries passed to yield, in order
  itState,       \* position of the iterator function
  plResult       \* outcome of processLogs

ivars == <<pattern, input, failAt, stopAfter, scanned, scanErr, currentEntry,
           yielded, itState, plResult>>

\* ----------------------------------------------------------- JSONExtractor
VARIABLES
  mapping,       \* JSONExtractor.fieldMappings
  entry,         \* the entry handed to ParseLogEntry
  record,        \* the LogEntry (and error) the last call returned
  parses,        \* calls of ParseLogEntry made
  clock,         \* time.Now(), in Unix seconds
  parsedAt,      \* time.Now() during the last call of ParseLogEntry
  prefixRegex,   \* JSONExtractor.prefixRegex
  jsonStr,       \* the local jsonStr of the last call of ParseLogEntry
  previous       \* the LogEntry the call before the last one returned

xvars == <<mapping, entry, record, parses, clock, parsedAt, prefixRegex,
           jsonStr, previous>>

\* ---------------------------------------------------------- executeCommand
VARIABLES
  childKind,     \* the child exits by itself, or runs until it is signalled
  script,        \* per stream: the lines the child has still to write
  written,       \* per stream: the lines the child has written
  pipe,          \* per stream: the lines in the OS pipe, not yet read
  childState,    \* "running" or "exited"
  childExit,     \* the child's exit code (-1: terminated by a signal)
  rdClosed,      \* per stream: cmd.Wait has closed the parent's read end
  sbuf,          \* per stream: lines read into the bufio.Scanner's buffer
  current,       \* per stream: currentEntry of the stream's iterator
  rdState,       \* per stream: processStream is "scanning" or "done"
  waitState,     \* position of the goroutine that runs cmd.Wait()
  doneChan,      \* content of the channel done
  sigChan,       \* content of the channel sigChan
  signals,       \* per signal that reached the host: the child's state then
  forwarded,     \* signals passed to cmd.Process.Signal, in order
  exState,       \* position of executeCommand
  cmdErr,        \* the local cmdErr
  sink,          \* records handed to processor.ProcessLogEntry, in order
  exResult,      \* what executeCommand returned
  passthrough,   \* per stream: Config.PassthroughStdout / PassthroughStderr
  echoed         \* per stream: what was written to os.Stdout / os.Stderr

\* the variables of executeCommand other than the sink
cvars == <<childKind, script, written, pipe, childState, childExit, rdClosed,
           sbuf, current, rdState, waitState, doneChan, sigChan, signals,
           forwarded, exState, cmdErr, exResult, passthrough, echoed>>

evars == <<cvars, sink>>

vars == <<bvars, ivars, xvars, evars>>

Procs == {"main", "p1", "p2", "tick"}
Producers == {"p1", "p2"}

\* locals of a call: c is the number of the API call (0 for a timer tick)
NoLoc == [c |-> 0, e |-> 0, l |-> 0, n |-> 0, batch |-> <<>>]

\* NewLogBatcher: entries = make([]*LogEntry, 0, maxSize); the ticker and the
\* flushLoop goroutine exist only when flushInterval > 0.
NewLogBatcher(m, timer, flushFunc, quota) ==
  /\ failMode = flushFunc
  /\ maxSize = m
  /\ timerOn = timer
  /\ arr = [i \in 1..m |-> 0]
  /\ blen = 0
  /\ tickPending = FALSE
  /\ tickerStopped = FALSE
  /\ doneClosed = FALSE
  /\ pc = [p \in Procs |-> IF quota[p] > 0 THEN "idle"
                           ELSE IF p = "tick" /\ timer THEN "loop" ELSE "none"]
  /\ op = [p \in Procs |-> "none"]
  /\ loc = [p \in Procs |-> NoLoc]
  /\ ret = [p \in Procs |-> "none"]
  /\ sent = <<>>
  /\ added = <<>>
  /\ ops = <<>>
  /\ callsLeft = quota
  /\ ticks = 0

\* The batcher is not constructed in this specification.
NoBatcher ==
  /\ maxSize = 0 /\ timerOn = FALSE /\ arr = <<>> /\ blen = 0
  /\ tickPending = FALSE /\ tickerStopped = FALSE /\ doneClosed = FALSE
  /\ pc = [p \in Procs |-> "none"] /\ op = [p \in Procs |-> "none"]
  /\ loc = [p \in Procs |-> NoLoc] /\ ret = [p \in Procs |-> "none"]
  /\ failMode = "never" /\ sent = <<>> /\ added = <<>> /\ ops = <<>>
  /\ callsLeft = [p \in Procs |-> 0] /\ ticks = 0

\* return from flush to the caller of Add/Flush/Close, or back into the
\* select of flushLoop (which only logs the error)
Return(p, r) ==
  /\ pc' = [pc EXCEPT ![p] = IF op[p] = "tick" THEN "loop" ELSE "idle"]
  /\ ret' = [ret EXCEPT ![p] = r]
  /\ op' = [op EXCEPT ![p] = "none"]
  /\ loc' = [loc EXCEPT ![p] = NoLoc]

\* Add is entered with a fresh record.
CallAdd(p) ==
  /\ pc[p] = "idle"
  /\ callsLeft[p] > 0
  /\ callsLeft' = [callsLeft EXCEPT ![p] = @ - 1]
  /\ pc' = [pc EXCEPT ![p] = "append_read"]
  /\ op' = [op EXCEPT ![p] = "Add"]
  /\ loc' = [loc EXCEPT ![p] = [NoLoc EXCEPT !.c = Len(ops) + 1,
                                            !.e = Len(added) + 1]]
  /\ added' = Append(added, Len(added) + 1)
  /\ ops' = Append(ops, "Add")
  /\ UNCHANGED <<maxSize, timerOn, arr, blen, tickPending, tickerStopped,
                 doneClosed, failMode, ret, sent, ticks>>
  /\ UNCHANGED <<ivars, xvars, evars>>

\* b.entries = append(b.entries, entry): read the slice header
AppendRead(p) ==
  /\ pc[p] = "append_read"
  /\ loc' = [loc EXCEPT ![p].l = blen]
  /\ pc' = [pc EXCEPT ![p] = "append_store"]
  /\ UNCHANGED <<maxSize, timerOn, arr, blen, tickPending, tickerStopped,
                 doneClosed, failMode, op, ret, sent, added, ops, callsLeft, ticks>>
  /\ UNCHANGED <<ivars, xvars, evars>>

\* ... store the element behind the length that was read (growing the array
\* when the capacity is used up)
AppendStore(p) ==
  /\ pc[p] = "append_store"
  /\ arr' = IF loc[p].l + 1 <= Len(arr)
            THEN [arr EXCEPT ![loc[p].l + 1] = loc[p].e]
            ELSE Append(arr, loc[p].e)
  /\ pc' = [pc EXCEPT ![p] = "append_hdr"]
  /\ UNCHANGED <<maxSize, timerOn, blen, tickPending, tickerStopped,
                 doneClosed, failMode, op, loc, ret, sent, added, ops, callsLeft, ticks>>
  /\ UNCHANGED <<ivars, xvars, evars>>

\* ... and write the new slice header back to b.entries
AppendHdr(p) ==
  /\ pc[p] = "append_hdr"
  /\ blen' = loc[p].l + 1
  /\ pc' = [pc EXCEPT ![p] = "add_check"]
  /\ UNCHANGED <<maxSize, timerOn, arr, tickPending, tickerStopped,
                 doneClosed, failMode, op, loc, ret, sent, added, ops, callsLeft, ticks>>
  /\ UNCHANGED <<ivars, xvars, evars>>

AddThresholdStrict(n, m) == n > m

\* if len(b.entries) >= b.maxSize
AddThreshold(n, m) == n >= m

\* Add: the threshold test; below the threshold Add returns nil
AddCheck(p) ==
  /\ pc[p] = "add_check"
  /\ IF AddThreshold(blen, maxSize)
     THEN /\ pc' = [pc EXCEPT ![p] = "flush_check"]
          /\ UNCHANGED <<op, loc, ret>>
     ELSE Return(p, "nil")
  /\ UNCHANGED <<maxSize, timerOn, arr, blen, tickPending, tickerStopped,
                 doneClosed, failMode, sent, added, ops, callsLeft, ticks>>
  /\ UNCHANGED <<ivars, xvars, evars>>

\* Flush() is entered
CallFlush(p) ==
  /\ pc[p] = "idle"
  /\ callsLeft[p] > 0
  /\ callsLeft' = [callsLeft EXCEPT ![p] = @ - 1]
  /\ pc' = [pc EXCEPT ![p] = "flush_check"]
  /\ op' = [op EXCEPT ![p] = "Flush"]
  /\ loc' = [loc EXCEPT ![p] = [NoLoc EXCEPT !.c = Len(ops) + 1]]
  /\ ops' = Append(ops, "Flush")
  /\ UNCHANGED <<maxSize, timerOn, arr, blen, tickPending, tickerStopped,
                 doneClosed, failMode, ret, sent, added, ticks>>
  /\ UNCHANGED <<ivars, xvars, evars>>

\* flush: if len(b.entries) == 0 { return nil }
FlushCheck(p) ==
  /\ pc[p] = "flush_check"
  /\ IF blen = 0
     THEN Return(p, "nil")
     ELSE /\ pc' = [pc EXCEPT ![p] = "flush_make"]
          /\ UNCHANGED <<op, loc, ret>>
  /\ UNCHANGED <<maxSize, timerOn, arr, blen, tickPending, tickerStopped,
                 doneClosed, failMode, sent, added, ops, callsLeft, ticks>>
  /\ UNCHANGED <<ivars, xvars, evars>>

\* entries := make([]*LogEntry, len(b.entries))
FlushMake(p) ==
  /\ pc[p] = "flush_make"
  /\ loc' = [loc EXCEPT ![p].n = blen]
  /\ pc' = [pc EXCEPT ![p] = "flush_copy"]
  /\ UNCHANGED <<maxSize, timerOn, arr, blen, tickPending, tickerStopped,
                 doneClosed, failMode, op, ret, sent, added, ops, callsLeft, ticks>>
  /\ UNCHANGED <<ivars, xvars, evars>>

\* copy(entries, b.entries): min(len(entries), len(b.entries)) elements are
\* copied, the rest of entries stays nil
FlushCopy(p) ==
  /\ pc[p] = "flush_copy"
  /\ loc' = [loc EXCEPT ![p].batch =
               [i \in 1..loc[p].n |-> IF i <= blen THEN arr[i] ELSE 0]]
  /\ pc' = [pc EXCEPT ![p] = "flush_reset"]
  /\ UNCHANGED <<maxSize, timerOn, arr, blen, tickPending, tickerStopped,
                 doneClosed, failMode, op, ret, sent, added, ops, callsLeft, ticks>>
  /\ UNCHANGED <<ivars, xvars, evars>>

FlushResetSkipped(p) ==
  /\ pc[p] = "flush_reset"
  /\ pc' = [pc EXCEPT ![p] = "flush_call"]
  /\ UNCHANGED <<maxSize, timerOn, arr, blen, tickPending, tickerStopped,
                 doneClosed, failMode, op, loc, ret, sent, added, ops, callsLeft, ticks>>
  /\ UNCHANGED <<ivars, xvars, evars>>

\* b.entries = b.entries[:0]: the length is reset, the array is kept
FlushReset(p) ==
  /\ pc[p] = "flush_reset"
  /\ blen' = 0
  /\ pc' = [pc EXCEPT ![p] = "flush_call"]
  /\ UNCHANGED <<maxSize, timerOn, arr, tickPending, tickerStopped,
                 doneClosed, failMode, op, loc, ret, sent, added, ops, callsLeft, ticks>>
  /\ UNCHANGED <<ivars, xvars, evars>>

\* MockLogSender.SendLogs fails on every call when ShouldError is set and on no
\* call otherwise; a transport may also fail on some calls only
FlushOutcomes ==
  CASE failMode = "never" -> {TRUE}
    [] failMode = "always" -> {FALSE}
    [] OTHER -> BOOLEAN

FlushResultDropped(ok) == "nil"

\* what flush returns: the error of flushFunc, or nil
FlushResult(ok) == IF ok THEN "nil" ELSE "err"

\* b.flushFunc(entries) is invoked with the local slice entries; the
\* callback will succeed or fail. after counts the records handed to Add
\* before the invocation.
FlushCall(p) ==
  /\ pc[p] = "flush_call"
  /\ \E ok \in FlushOutcomes :
       sent' = Append(sent, [batch |-> loc[p].batch, by |-> p, op |-> op[p],
                             call |-> loc[p].c, ok |-> ok,
                             after |-> Len(added)])
  /\ pc' = [pc EXCEPT ![p] = "flush_func"]
  /\ UNCHANGED <<maxSize, timerOn, arr, blen, tickPending, tickerStopped,
                 doneClosed, failMode, op, loc, ret, added, ops, callsLeft,
                 ticks>>
  /\ UNCHANGED <<ivars, xvars, evars>>

BatchViewAliased(p) == [i \in 1..loc[p].n |-> arr[i]]

\* what flushFunc reads through the slice it was called with: entries has
\* its own backing array, filled by copy
BatchView(p) == loc[p].batch

\* the last invocation of flushFunc made by goroutine p
LastCall(p) ==
  sent[CHOOSE i \in 1..Len(sent) :
         /\ sent[i].by = p
         /\ \A j \in (i + 1)..Len(sent) : sent[j].by # p]

\* return b.flushFunc(entries): the callback returns and flush returns its
\* result
FlushReturn(p) ==
  /\ pc[p] = "flush_func"
  /\ Return(p, FlushResult(LastCall(p).ok))
  /\ UNCHANGED <<maxSize, timerOn, arr, blen, tickPending, tickerStopped,
                 doneClosed, failMode, sent, added, ops, callsLeft, ticks>>
  /\ UNCHANGED <<ivars, xvars, evars>>

CallCloseNoFlush(p) ==
  /\ pc[p] = "idle"
  /\ callsLeft[p] > 0
  /\ callsLeft' = [callsLeft EXCEPT ![p] = @ - 1]
  /\ pc' = [pc EXCEPT ![p] = IF timerOn THEN "close_stop" ELSE "idle"]
  /\ op' = [op EXCEPT ![p] = IF timerOn THEN "Close" ELSE "none"]
  /\ loc' = [loc EXCEPT ![p] = [NoLoc EXCEPT !.c = Len(ops) + 1]]
  /\ ret' = [ret EXCEPT ![p] = "nil"]
  /\ ops' = Append(ops, "Close")
  /\ UNCHANGED <<maxSize, timerOn, arr, blen, tickPending, tickerStopped,
                 doneClosed, failMode, sent, added, ticks>>
  /\ UNCHANGED <<ivars, xvars, evars>>

\* Close is entered: if b.ticker != nil { ticker.Stop(); close(done) }
CallClose(p) ==
  /\ pc[p] = "idle"
  /\ callsLeft[p] > 0
  /\ callsLeft' = [callsLeft EXCEPT ![p] = @ - 1]
  /\ pc' = [pc EXCEPT ![p] = IF timerOn THEN "close_stop" ELSE "flush_check"]
  /\ op' = [op EXCEPT ![p] = "Close"]
  /\ loc' = [loc EXCEPT ![p] = [NoLoc EXCEPT !.c = Len(ops) + 1]]
  /\ ops' = Append(ops, "Close")
  /\ UNCHANGED <<maxSize, timerOn, arr, blen, tickPending, tickerStopped,
                 doneClosed, failMode, ret, sent, added, ticks>>
  /\ UNCHANGED <<ivars, xvars, evars>>

\* Close: b.ticker.Stop(). No further tick is sent; a tick that waits in
\* ticker.C stays there.
CloseStop(p) ==
  /\ pc[p] = "close_stop"
  /\ tickerStopped' = TRUE
  /\ pc' = [pc EXCEPT ![p] = "close_done"]
  /\ UNCHANGED <<maxSize, timerOn, arr, blen, tickPending, doneClosed,
                 failMode, op, loc, ret, sent, added, ops, callsLeft, ticks>>
  /\ UNCHANGED <<ivars, xvars, evars>>

\* Close: close(b.done). Closing a channel that is closed already panics,
\* and a panic that nothing recovers ends the process with all its goroutines.
CloseDone(p) ==
  /\ pc[p] = "close_done"
  /\ IF doneClosed
     THEN /\ pc' = [q \in Procs |-> IF pc[q] = "none" THEN "none"
                                   ELSE "panicked"]
          /\ ret' = [ret EXCEPT ![p] = "panic"]
          /\ UNCHANGED doneClosed
     ELSE /\ doneClosed' = TRUE
          /\ pc' = [pc EXCEPT ![p] = "flush_check"]
          /\ UNCHANGED ret
  /\ UNCHANGED <<maxSize, timerOn, arr, blen, tickPending, tickerStopped,
                 failMode, op, loc, sent, added, ops, callsLeft, ticks>>
  /\ UNCHANGED <<ivars, xvars, evars>>

\* one step of Close before its final flush
CloseStep(p) ==
  \/ CallClose(p)
  \/ CloseStop(p)
  \/ CloseDone(p)

RECURSIVE Flatten(_)
\* the batches handed to flushFunc, concatenated in invocation order
Flatten(calls) ==
  IF calls = <<>> THEN <<>> ELSE calls[1].batch \o Flatten(Tail(calls))

\* a producer goroutine has made all its Add calls and signals completion
ProducerDone(p) ==
  /\ pc[p] = "idle"
  /\ callsLeft[p] = 0
  /\ pc' = [pc EXCEPT ![p] = "done"]
  /\ UNCHANGED <<maxSize, timerOn, arr, blen, tickPending, tickerStopped,
                 doneClosed, failMode, op, loc, ret, sent, added, ops, callsLeft, ticks>>
  /\ UNCHANGED <<ivars, xvars, evars>>

\* the caller has received every producer's completion and calls Flush
JoinAndFlush ==
  /\ \A p \in Producers : pc[p] = "done"
  /\ CallFlush("main")

\* the ticker delivers a tick into ticker.C (dropped when one is pending);
\* it goes on firing until it is stopped, and ticks counts up to MaxTicks
TimerFire ==
  /\ timerOn /\ ~tickerStopped /\ ~tickPending
  /\ tickPending' = TRUE
  /\ ticks' = IF ticks < MaxTicks THEN ticks + 1 ELSE ticks
  /\ UNCHANGED <<maxSize, timerOn, arr, blen, tickerStopped, doneClosed,
                 failMode, pc, op, loc, ret, sent, added, ops, callsLeft>>
  /\ UNCHANGED <<ivars, xvars, evars>>

\* flushLoop: case <-b.ticker.C: b.flush()
LoopTick ==
  /\ pc["tick"] = "loop"
  /\ tickPending
  /\ tickPending' = FALSE
  /\ pc' = [pc EXCEPT !["tick"] = "flush_check"]
  /\ op' = [op EXCEPT !["tick"] = "tick"]
  /\ UNCHANGED <<maxSize, timerOn, arr, blen, tickerStopped, doneClosed,
                 failMode, loc, ret, sent, added, ops, callsLeft, ticks>>
  /\ UNCHANGED <<ivars, xvars, evars>>

\* flushLoop: case <-b.done: return
LoopDone ==
  /\ pc["tick"] = "loop"
  /\ doneClosed
  /\ pc' = [pc EXCEPT !["tick"] = "exited"]
  /\ UNCHANGED <<maxSize, timerOn, arr, blen, tickPending, tickerStopped,
                 doneClosed, failMode, op, loc, ret, sent, added, ops, callsLeft, ticks>>
  /\ UNCHANGED <<ivars, xvars, evars>>

\* one step of Add (and of the flush it triggers) made by goroutine p
AddStep(p) ==
  \/ CallAdd(p)
  \/ AppendRead(p)
  \/ AppendStore(p)
  \/ AppendHdr(p)
  \/ AddCheck(p)

\* one step of flush made by goroutine p
FlushStep(p) ==
  \/ FlushCheck(p)
  \/ FlushMake(p)
  \/ FlushCopy(p)
  \/ FlushReset(p)
  \/ FlushCall(p)
  \/ FlushReturn(p)

\* ------------------------------------------------------ multiline reassembly
Chars == {"a", " "}

RECURSIVE SeqsUpTo(_, _)
\* the sequences over S of length at most n
SeqsUpTo(S, n) ==
  IF n = 0 THEN {<<>>}
  ELSE LET shorter == SeqsUpTo(S, n - 1)
       IN shorter \cup {Append(q, x) : q \in shorter, x \in S}

\* the lines of an input: the empty line, and a first character (which
\* decides whether the line is a continuation) followed by text
Lines ==
  {<<>>} \cup {<<c>> \o [i \in 1..n |-> "a"] : c \in Chars, n \in 0..(MaxLineLen - 1)}

\* regexp.Compile(config.ContinuationPattern) succeeds
Compiles(pat) == pat # "("

\* continuationPattern.MatchString(line) for the patterns "^[ \t]" (the
\* default) and "^a"
Matches(pat, line) ==
  /\ line # <<>>
  /\ \/ pat = "^[ \\t]" /\ line[1] \in {" ", "\t"}
     \/ pat = "^a" /\ line[1] = "a"

\* isLogEntryStart: not empty and not a continuation
isLogEntryStart(pat, line) ==
  IF Len(line) = 0 THEN FALSE
  ELSE IF Matches(pat, line) THEN FALSE
  ELSE TRUE

LineStepEmptyCloses(pat, cur, line) ==
  IF Len(line) = 0 THEN [emit |-> Len(cur) > 0, cur |-> <<>>]
  ELSE IF isLogEntryStart(pat, line)
       THEN [emit |-> Len(cur) > 0, cur |-> line]
       ELSE IF Len(cur) > 0
            THEN [emit |-> FALSE, cur |-> cur \o <<"\n">> \o line]
            ELSE [emit |-> FALSE, cur |-> cur]

LineStepKeepOrphan(pat, cur, line) ==
  IF Len(line) = 0 THEN [emit |-> FALSE, cur |-> cur]
  ELSE IF isLogEntryStart(pat, line)
       THEN [emit |-> Len(cur) > 0, cur |-> line]
       ELSE [emit |-> FALSE, cur |-> cur \o <<"\n">> \o line]

\* body of the scan loop for one line: does it yield currentEntry first, and
\* what is currentEntry afterwards
LineStep(pat, cur, line) ==
  IF Len(line) = 0 THEN [emit |-> FALSE, cur |-> cur]
  ELSE IF isLogEntryStart(pat, line)
       THEN [emit |-> Len(cur) > 0, cur |-> line]
       ELSE IF Len(cur) > 0
            THEN [emit |-> FALSE, cur |-> cur \o <<"\n">> \o line]
            ELSE [emit |-> FALSE, cur |-> cur]

\* the consumer's loop body returns false to yield when it breaks
ConsumerStops(n) == stopAfter # -1 /\ n >= stopAfter

\* the input of one run: a reader, its failure point, the pattern and the
\* consumer's break point. A pattern that does not compile is tried on one
\* input, since no line is read then.
NewIterator(pats, stops) ==
  /\ pattern \in pats
  /\ input \in SeqsUpTo(Lines, MaxLines)
  /\ failAt \in -1..Len(input)
  /\ stopAfter \in stops
  /\ Compiles(pattern) \/ (input = <<>> /\ failAt = -1 /\ stopAfter = -1)
  /\ scanned = 0
  /\ scanErr = FALSE
  /\ currentEntry = <<>>
  /\ yielded = <<>>
  /\ itState = "start"
  /\ plResult = "running"

\* no stream is read in this specification
NoIterator ==
  /\ pattern = "^[ \\t]" /\ input = <<>> /\ failAt = -1 /\ stopAfter = -1
  /\ scanned = 0 /\ scanErr = FALSE /\ currentEntry = <<>> /\ yielded = <<>>
  /\ itState = "none" /\ plResult = "none"

\* processLogs: compile the continuation pattern, or return the error
CompilePattern ==
  /\ itState = "start"
  /\ IF Compiles(pattern)
     THEN itState' = "scanning" /\ UNCHANGED plResult
     ELSE itState' = "none" /\ plResult' = "compile error"
  /\ UNCHANGED <<pattern, input, failAt, stopAfter, scanned, scanErr,
                 currentEntry, yielded>>
  /\ UNCHANGED <<bvars, xvars, evars>>


\* --------------------------------------------------------- field extraction
\* JSON values as encoding/json decodes them into map[string]any: string,
\* float64, or another type (bool, nil, map, slice); Absent: no such key
Absent == [t |-> "absent", v |-> 0]
Str(x) == [t |-> "string", v |-> x]
Num(x) == [t |-> "number", v |-> x]
Other == [t |-> "bool", v |-> 1]

Keys == {"timestamp", "ts", "level", "lvl", "message", "msg", "user"}

\* time.Now() at the start of a run
StartTime == 1800000000

\* the zero time.Time, January 1 of year 1: Unix second -62135596800, which
\* is before every other time and is written here as the least 32-bit integer
ZeroTime == -2147483647

\* Time.IsZero
IsZero(t) == t = ZeroTime

\* parseTimestamp: the value of the first layout that parses the string
parseTimestamp(str) ==
  CASE str = "2024-01-15T10:30:45Z" -> [ok |-> TRUE, t |-> 1705314645]
    [] str = "2024-01-15 11:30:45" -> [ok |-> TRUE, t |-> 1705318245]
    [] str = "0001-01-01T00:00:00Z" -> [ok |-> TRUE, t |-> ZeroTime]
    [] OTHER -> [ok |-> FALSE, t |-> 0]

DeleteNothing(obj, k) == obj

\* delete(jsonData, field)
Delete(obj, k) == [obj EXCEPT ![k] = Absent]

\* a decoded object without keys; a nil map reads the same
NoObject == [k \in Keys |-> Absent]

\* A Go string is a sequence of pieces (substrings); the piece "{..}" is the
\* JSON text of an object, and obj is the object that text denotes.
Lit(x) == [text |-> <<x>>, obj |-> NoObject]

\* a timestamp as the default prefix pattern recognises it
TimestampPiece == "2024-01-15T10:30:45Z"

\* the pieces of an entry's text: white space, a timestamp, JSON values of
\* every kind, a truncated JSON object and a plain word
Pieces ==
  {" ", "\n", TimestampPiece, "{..}", "null", "[1]", "\"s\"", "7", "true",
   "{\"a\":", "at"}

\* unicode.IsSpace, and the white space encoding/json skips
Whitespace == {" ", "\n"}

RECURSIVE SkipWhile(_, _)
SkipWhile(t, S) ==
  IF t # <<>> /\ Head(t) \in S THEN SkipWhile(Tail(t), S) ELSE t

RECURSIVE DropTrailing(_, _)
DropTrailing(t, S) ==
  IF t # <<>> /\ t[Len(t)] \in S
  THEN DropTrailing(SubSeq(t, 1, Len(t) - 1), S) ELSE t

\* the substring t of the string line
Sub(line, t) ==
  [text |-> t,
   obj |-> IF \E i \in 1..Len(t) : t[i] = "{..}" THEN line.obj ELSE NoObject]

\* strings.TrimSpace
TrimSpace(line) ==
  Sub(line, DropTrailing(SkipWhile(line.text, Whitespace), Whitespace))

\* the -json-prefix flag: empty selects the default pattern
\*   ^(\d{4}-\d{2}-\d{2}[T\s]\d{2}:\d{2}:\d{2}[.\d]*[Z\-+\d:]*\s*)?(.*)$
DefaultPrefix == ""
BracketPrefix == "^\\[.*?\\]\\s*(.*)$"

HasNewline(t) == \E i \in 1..Len(t) : t[i] = "\n"

\* a pattern without a capturing group
NoGroupPrefix == "^\\[.*?\\]"

\* prefixRegex.FindStringSubmatch: the match and its groups, or the empty
\* slice when the pattern does not match. "." does not match a newline and
\* "$" only matches at the end of the text, so the last group reaches the
\* end of a text only if no newline is in it.
FindStringSubmatch(re, t) ==
  IF re = DefaultPrefix
  THEN LET rest == SkipWhile(SkipWhile(Tail(t), {"7"}), Whitespace)
       IN IF t # <<>> /\ t[1] = TimestampPiece /\ ~HasNewline(rest)
          THEN <<t, SubSeq(t, 1, Len(t) - Len(rest)), rest>>
          ELSE IF ~HasNewline(t) THEN <<t, <<>>, t>>
          ELSE <<>>
  ELSE IF re = BracketPrefix
  THEN LET After(j) == SkipWhile(SubSeq(t, j + 1, Len(t)), Whitespace)
           J == {j \in 1..Len(t) :
                   /\ t[j] = "[1]"
                   /\ ~HasNewline(SubSeq(t, 1, j))
                   /\ ~HasNewline(After(j))}
       IN IF t # <<>> /\ t[1] = "[1]" /\ J # {}
          THEN <<t, After(CHOOSE j \in J : \A i \in J : j <= i)>>
          ELSE <<>>
  ELSE IF t # <<>> /\ t[1] = "[1]" THEN << <<"[1]">> >>
  ELSE <<>>

ExtractJSONFirstGroup(re, line) ==
  LET matches == FindStringSubmatch(re, line.text)
  IN IF Len(matches) = 0 THEN line
     ELSE IF Len(matches) > 1 /\ matches[2] # <<>>
     THEN Sub(line, matches[2])
     ELSE line

\* ExtractJSON: the last group of the match if there is a group and it is
\* not empty, else the line
ExtractJSON(re, line) ==
  LET matches == FindStringSubmatch(re, line.text)
  IN IF Len(matches) = 0 THEN line
     ELSE IF Len(matches) > 1 /\ matches[Len(matches)] # <<>>
     THEN Sub(line, matches[Len(matches)])
     ELSE line

\* the kind of JSON value a text is, as encoding/json scans it
JSONKind(t) ==
  LET v == DropTrailing(SkipWhile(t, Whitespace), Whitespace)
  IN IF v # <<>> /\ \A i \in 1..Len(v) : v[i] = "7" THEN "number"
     ELSE IF Len(v) # 1 THEN "invalid"
     ELSE CASE v[1] = "{..}" -> "object"
            [] v[1] = "null" -> "null"
            [] v[1] = "[1]" -> "array"
            [] v[1] = "\"s\"" -> "string"
            [] v[1] = "true" -> "bool"
            [] OTHER -> "invalid"

\* json.Unmarshal([]byte(jsonStr), &jsonData) with jsonData a nil
\* map[string]any: an object fills the map, null leaves it nil without an
\* error, every other value is an UnmarshalTypeError, the rest a SyntaxError
Unmarshal(str) ==
  LET k == JSONKind(str.text)
  IN [ok |-> k \in {"object", "null"},
      nil |-> k = "null",
      obj |-> IF k = "object" THEN str.obj ELSE NoObject]

RECURSIVE LastOfType(_, _, _, _)
LastOfType(keys, obj, types, i) ==
  IF i > Len(keys) THEN 0
  ELSE LET later == LastOfType(keys, obj, types, i + 1)
       IN IF later # 0 THEN later
          ELSE IF obj[keys[i]].t \in types THEN i ELSE 0

RECURSIVE FirstOfType(_, _, _, _)
\* the range loop over a key list: the index of the first key, from i on,
\* whose value passes one of the type assertions (where the loop breaks), or 0
FirstOfType(keys, obj, types, i) ==
  IF i > Len(keys) THEN 0
  ELSE IF obj[keys[i]].t \in types THEN i
  ELSE FirstOfType(keys, obj, types, i + 1)

ToLower(x) == IF x = "ERROR" THEN "error" ELSE x

ParseObjectLowersLevel(m, obj, raw, now) ==
  LET ti == FirstOfType(m.TimestampFields, obj, {"string", "number"}, 1)
      tk == m.TimestampFields[ti]
      tv == obj[tk]
      extracted == IF ti = 0 THEN [ok |-> FALSE, t |-> ZeroTime]
                   ELSE IF tv.t = "number" THEN [ok |-> TRUE, t |-> tv.v]
                   ELSE IF parseTimestamp(tv.v).ok THEN parseTimestamp(tv.v)
                   ELSE [ok |-> FALSE, t |-> ZeroTime]
      time == IF ~extracted.ok \/ IsZero(extracted.t) THEN now
              ELSE extracted.t
      obj1 == IF ti = 0 THEN obj ELSE Delete(obj, tk)
      li == FirstOfType(m.LevelFields, obj1, {"string"}, 1)
      lk == m.LevelFields[li]
      obj2 == IF li = 0 THEN obj1 ELSE Delete(obj1, lk)
      mi == FirstOfType(m.MessageFields, obj2, {"string"}, 1)
      mk == m.MessageFields[mi]
      obj3 == IF mi = 0 THEN obj2 ELSE Delete(obj2, mk)
  IN [Timestamp |-> time,
      Level |-> IF li = 0 THEN "info" ELSE ToLower(obj1[lk].v),
      Message |-> IF mi = 0 THEN Lit("Log entry") ELSE Lit(obj2[mk].v),
      Fields |-> obj3,
      Raw |-> raw,
      Stream |-> "",
      err |-> "nil"]

ParseObjectKeepsBadKey(m, obj, raw, now) ==
  LET ti == FirstOfType(m.TimestampFields, obj, {"string", "number"}, 1)
      tk == m.TimestampFields[ti]
      tv == obj[tk]
      extracted == IF ti = 0 THEN [ok |-> FALSE, t |-> ZeroTime]
                   ELSE IF tv.t = "number" THEN [ok |-> TRUE, t |-> tv.v]
                   ELSE IF parseTimestamp(tv.v).ok THEN parseTimestamp(tv.v)
                   ELSE [ok |-> FALSE, t |-> ZeroTime]
      time == IF ~extracted.ok \/ IsZero(extracted.t) THEN now
              ELSE extracted.t
      obj1 == IF ti = 0 \/ ~extracted.ok THEN obj ELSE Delete(obj, tk)
      li == FirstOfType(m.LevelFields, obj1, {"string"}, 1)
      lk == m.LevelFields[li]
      obj2 == IF li = 0 THEN obj1 ELSE Delete(obj1, lk)
      mi == FirstOfType(m.MessageFields, obj2, {"string"}, 1)
      mk == m.MessageFields[mi]
      obj3 == IF mi = 0 THEN obj2 ELSE Delete(obj2, mk)
  IN [Timestamp |-> time,
      Level |-> IF li = 0 THEN "info" ELSE obj1[lk].v,
      Message |-> IF mi = 0 THEN Lit("Log entry") ELSE Lit(obj2[mk].v),
      Fields |-> obj3,
      Raw |-> raw,
      Stream |-> "",
      err |-> "nil"]

\* ParseLogEntry on the structured path, after json.Unmarshal succeeded
ParseObject(m, obj, raw, now) ==
  LET ti == FirstOfType(m.TimestampFields, obj, {"string", "number"}, 1)
      tk == m.TimestampFields[ti]
      tv == obj[tk]
      extracted == IF ti = 0 THEN [ok |-> FALSE, t |-> ZeroTime]
                   ELSE IF tv.t = "number" THEN [ok |-> TRUE, t |-> tv.v]
                   ELSE IF parseTimestamp(tv.v).ok THEN parseTimestamp(tv.v)
                   ELSE [ok |-> FALSE, t |-> ZeroTime]
      time == IF ~extracted.ok \/ IsZero(extracted.t) THEN now
              ELSE extracted.t
      obj1 == IF ti = 0 THEN obj ELSE Delete(obj, tk)
      li == FirstOfType(m.LevelFields, obj1, {"string"}, 1)
      lk == m.LevelFields[li]
      obj2 == IF li = 0 THEN obj1 ELSE Delete(obj1, lk)
      mi == FirstOfType(m.MessageFields, obj2, {"string"}, 1)
      mk == m.MessageFields[mi]
      obj3 == IF mi = 0 THEN obj2 ELSE Delete(obj2, mk)
  IN [Timestamp |-> time,
      Level |-> IF li = 0 THEN "info" ELSE obj1[lk].v,
      Message |-> IF mi = 0 THEN Lit("Log entry") ELSE Lit(obj2[mk].v),
      Fields |-> obj3,
      Raw |-> raw,
      Stream |-> "",
      err |-> "nil"]

ParseLogEntryRawIsPayload(m, line, now) ==
  LET u == Unmarshal(ExtractJSON(prefixRegex, line))
  IN IF ~u.ok
     THEN [Timestamp |-> now, Level |-> "info", Message |-> TrimSpace(line),
           Fields |-> NoObject, Raw |-> line, Stream |-> "", err |-> "nil"]
     ELSE ParseObject(m, u.obj, ExtractJSON(prefixRegex, line), now)

ParseLogEntryReturnsError(m, line, now) ==
  LET u == Unmarshal(ExtractJSON(prefixRegex, line))
  IN IF ~u.ok
     THEN [Timestamp |-> now, Level |-> "info", Message |-> TrimSpace(line),
           Fields |-> NoObject, Raw |-> line, Stream |-> "",
           err |-> "invalid character"]
     ELSE ParseObject(m, u.obj, line, now)

\* ParseLogEntry: the fallback when json.Unmarshal of the extracted payload
\* returns an error, the structured path otherwise
ParseLogEntry(m, line, now) ==
  LET u == Unmarshal(ExtractJSON(prefixRegex, line))
  IN IF ~u.ok
     THEN [Timestamp |-> now, Level |-> "info", Message |-> TrimSpace(line),
           Fields |-> NoObject, Raw |-> line, Stream |-> "", err |-> "nil"]
     ELSE ParseObject(m, u.obj, line, now)

\* the JSON objects fed to the extractor
Objects ==
  { [k \in Keys |->
       CASE k = "timestamp" -> a [] k = "ts" -> b [] k = "level" -> c
         [] k = "lvl" -> d [] k = "message" -> f [] k = "msg" -> g
         [] OTHER -> h] :
    a \in {Absent, Str("2024-01-15T10:30:45Z"), Str("soon"), Num(1705315853), Other},
    b \in {Absent, Str("2024-01-15 11:30:45"), Str("soon"), Num(1705315854), Other,
           Str("0001-01-01T00:00:00Z")},
    c \in {Absent, Str("warn"), Num(30)},
    d \in {Absent, Str("ERROR"), Num(30)},
    f \in {Absent, Str("hi"), Num(1)},
    g \in {Absent, Str("yo"), Other},
    h \in {Absent, Str("u1")} }

\* the object of the entries that have more text than the object
SampleObject ==
  [k \in Keys |-> CASE k = "level" -> Str("warn") [] k = "msg" -> Str("yo")
                    [] k = "user" -> Str("u1") [] OTHER -> Absent]

\* entries that are the text of one JSON object and nothing else
ObjectEntries == {[text |-> <<"{..}">>, obj |-> o] : o \in Objects}

\* entries of up to MaxPieces pieces, with and without prefix, white space,
\* continuation lines and payloads that are not objects
TextEntries ==
  {Sub([text |-> t, obj |-> SampleObject], t) : t \in SeqsUpTo(Pieces, MaxPieces)}

\* field mappings: the head of the default lists, the same lists reversed,
\* lists that share a key, and empty lists
Mappings ==
  { [TimestampFields |-> <<"timestamp", "ts">>, LevelFields |-> <<"level", "lvl">>,
     MessageFields |-> <<"message", "msg">>],
    [TimestampFields |-> <<"ts", "timestamp">>, LevelFields |-> <<"lvl", "level">>,
     MessageFields |-> <<"msg", "message">>],
    [TimestampFields |-> <<"ts">>, LevelFields |-> <<"ts", "level">>,
     MessageFields |-> <<"level", "message">>],
    [TimestampFields |-> <<>>, LevelFields |-> <<>>, MessageFields |-> <<>>] }

NewJSONExtractor ==
  /\ \/ /\ prefixRegex = DefaultPrefix
        /\ mapping \in Mappings
        /\ entry \in ObjectEntries
     \/ /\ prefixRegex \in {DefaultPrefix, BracketPrefix}
        /\ mapping \in {m \in Mappings : m.LevelFields \in {<<"level", "lvl">>, <<>>}}
        /\ entry \in TextEntries
     \/ /\ prefixRegex = NoGroupPrefix
        /\ mapping \in {m \in Mappings : m.LevelFields = <<"level", "lvl">>}
        /\ entry \in TextEntries
  /\ jsonStr = Lit("")
  /\ previous = [err |-> "none"]
  /\ record = [err |-> "none"]
  /\ parses = 0
  /\ clock = StartTime
  /\ parsedAt = 0

\* nothing is parsed in this specification
NoExtractor ==
  /\ prefixRegex = DefaultPrefix
  /\ mapping = [TimestampFields |-> <<>>, LevelFields |-> <<>>,
                MessageFields |-> <<>>]
  /\ entry = Lit("")
  /\ jsonStr = Lit("")
  /\ previous = [err |-> "none"]
  /\ record = [err |-> "none"]
  /\ parses = 0
  /\ clock = StartTime
  /\ parsedAt = 0

\* a call of ParseLogEntry on the entry
Parse ==
  /\ parses < MaxParses
  /\ jsonStr' = ExtractJSON(prefixRegex, entry)
  /\ record' = ParseLogEntry(mapping, entry, clock)
  /\ previous' = record
  /\ parses' = parses + 1
  /\ parsedAt' = clock
  /\ UNCHANGED <<mapping, entry, clock, prefixRegex>>
  /\ UNCHANGED <<bvars, ivars, evars>>

\* the wall clock advances
ClockTick ==
  /\ clock < StartTime + MaxClockTicks
  /\ clock' = clock + 1
  /\ UNCHANGED <<mapping, entry, record, parses, parsedAt, prefixRegex,
                 jsonStr, previous>>
  /\ UNCHANGED <<bvars, ivars, evars>>


\* ------------------------------------------------- processing of one stream
\* a string without the text of an object
Text(t) == [text |-> t, obj |-> NoObject]

\* the *LogEntry of the pair ParseLogEntry returns
LogEntryOf(r) ==
  [Timestamp |-> r.Timestamp, Level |-> r.Level, Message |-> r.Message,
   Fields |-> r.Fields, Raw |-> r.Raw, Stream |-> r.Stream]

\* the body of processLogs' range loop: the record it hands to the processor
StdinRecord(e) == LogEntryOf(ParseLogEntry(mapping, Text(e), clock))

ScanLineIgnoresYield ==
  /\ itState = "scanning"
  /\ scanned < Len(input) /\ scanned # failAt
  /\ LET step == LineStep(pattern, currentEntry, input[scanned + 1])
     IN /\ scanned' = scanned + 1
        /\ yielded' = IF step.emit THEN Append(yielded, currentEntry)
                      ELSE yielded
        /\ sink' = IF step.emit THEN Append(sink, StdinRecord(currentEntry))
                   ELSE sink
        /\ itState' = "scanning" /\ currentEntry' = step.cur
  /\ UNCHANGED <<pattern, input, failAt, stopAfter, scanErr, plResult>>
  /\ UNCHANGED <<bvars, xvars, cvars>>

ScanLineYieldsLine ==
  /\ itState = "scanning"
  /\ scanned < Len(input) /\ scanned # failAt
  /\ LET step == LineStep(pattern, currentEntry, input[scanned + 1])
     IN /\ scanned' = scanned + 1
        /\ yielded' = IF step.emit THEN Append(yielded, step.cur)
                      ELSE yielded
        /\ sink' = IF step.emit THEN Append(sink, StdinRecord(step.cur))
                   ELSE sink
        /\ IF step.emit /\ ConsumerStops(Len(yielded) + 1)
           THEN itState' = "returned" /\ UNCHANGED currentEntry
           ELSE itState' = "scanning" /\ currentEntry' = step.cur
  /\ UNCHANGED <<pattern, input, failAt, stopAfter, scanErr, plResult>>
  /\ UNCHANGED <<bvars, xvars, cvars>>

\* scanner.Scan() returns true: one pass through the loop body
ScanLine ==
  /\ itState = "scanning"
  /\ scanned < Len(input) /\ scanned # failAt
  /\ LET step == LineStep(pattern, currentEntry, input[scanned + 1])
     IN /\ scanned' = scanned + 1
        /\ yielded' = IF step.emit THEN Append(yielded, currentEntry)
                      ELSE yielded
        /\ sink' = IF step.emit THEN Append(sink, StdinRecord(currentEntry))
                   ELSE sink
        /\ IF step.emit /\ ConsumerStops(Len(yielded) + 1)
           THEN itState' = "returned" /\ UNCHANGED currentEntry
           ELSE itState' = "scanning" /\ currentEntry' = step.cur
  /\ UNCHANGED <<pattern, input, failAt, stopAfter, scanErr, plResult>>
  /\ UNCHANGED <<bvars, xvars, cvars>>

\* scanner.Scan() returns false, at end of input or because the read failed:
\* the loop ends and the final entry is yielded
ScanEnd ==
  /\ itState = "scanning"
  /\ scanned = Len(input) \/ scanned = failAt
  /\ scanErr' = (scanned = failAt)
  /\ yielded' = IF Len(currentEntry) > 0 THEN Append(yielded, currentEntry)
                ELSE yielded
  /\ sink' = IF Len(currentEntry) > 0 THEN Append(sink, StdinRecord(currentEntry))
             ELSE sink
  /\ itState' = "returned"
  /\ UNCHANGED <<pattern, input, failAt, stopAfter, scanned, currentEntry,
                 plResult>>
  /\ UNCHANGED <<bvars, xvars, cvars>>

\* processLogs: the range loop is over, return nil
LoopReturn ==
  /\ itState = "returned"
  /\ plResult = "running"
  /\ plResult' = "nil"
  /\ UNCHANGED <<pattern, input, failAt, stopAfter, scanned, scanErr,
                 currentEntry, yielded, itState>>
  /\ UNCHANGED <<bvars, xvars, evars>>


\* ----------------------------------------------- stream capture coordinator
Streams == {"stdout", "stderr"}

\* the lines a child writes: two entry starts and a continuation; on its
\* error stream one entry start and a continuation
ChildLines == {<<"a">>, <<"a", "a">>, <<" ", "a">>}

ErrLines == {<<"a">>, <<" ", "a">>}

\* the state when cmd.Start() has returned and the two processStream
\* goroutines and the goroutine around cmd.Wait() have been started
StartCommand ==
  /\ childKind \in {"exits", "until signalled"}
  /\ script \in {f \in [Streams -> SeqsUpTo(ChildLines, MaxChildLines)] :
                    /\ Len(f["stdout"]) + Len(f["stderr"]) <= MaxChildLines
                    /\ \A i \in 1..Len(f["stderr"]) : f["stderr"][i] \in ErrLines}
  /\ written = [s \in Streams |-> <<>>]
  /\ pipe = [s \in Streams |-> <<>>]
  /\ childState = "running"
  /\ childExit = 0
  /\ rdClosed = [s \in Streams |-> FALSE]
  /\ sbuf = [s \in Streams |-> <<>>]
  /\ current = [s \in Streams |-> <<>>]
  /\ rdState = [s \in Streams |-> "scanning"]
  /\ waitState = "waiting"
  /\ doneChan = "empty"
  /\ sigChan = "empty"
  /\ signals = <<>>
  /\ forwarded = <<>>
  /\ exState = "select"
  /\ cmdErr = "nil"
  /\ sink = <<>>
  /\ exResult = "running"
  /\ passthrough \in {[s \in Streams |-> s = on] : on \in Streams}
  /\ echoed = [s \in Streams |-> <<>>]

\* no command is wrapped in this specification
NoCommand ==
  /\ childKind = "none"
  /\ script = [s \in Streams |-> <<>>] /\ written = [s \in Streams |-> <<>>]
  /\ pipe = [s \in Streams |-> <<>>]
  /\ childState = "none" /\ childExit = 0
  /\ rdClosed = [s \in Streams |-> FALSE]
  /\ sbuf = [s \in Streams |-> <<>>] /\ current = [s \in Streams |-> <<>>]
  /\ rdState = [s \in Streams |-> "none"]
  /\ waitState = "none" /\ doneChan = "empty" /\ sigChan = "empty"
  /\ signals = <<>> /\ forwarded = <<>>
  /\ exState = "none" /\ cmdErr = "nil" /\ sink = <<>> /\ exResult = "none"
  /\ passthrough = [s \in Streams |-> FALSE]
  /\ echoed = [s \in Streams |-> <<>>]

\* the child writes its next line to one of its streams
ChildWrite(s) ==
  /\ childState = "running"
  /\ script[s] # <<>>
  /\ script' = [script EXCEPT ![s] = Tail(@)]
  /\ written' = [written EXCEPT ![s] = Append(@, Head(script[s]))]
  /\ pipe' = [pipe EXCEPT ![s] = Append(@, Head(script[s]))]
  /\ UNCHANGED <<childKind, childState, childExit, rdClosed, sbuf, current,
                 rdState, waitState, doneChan, sigChan, signals, forwarded,
                 exState, cmdErr, sink, exResult,
                 passthrough, echoed>>
  /\ UNCHANGED <<bvars, ivars, xvars>>

\* the child has written everything and exits, with code 0 or 1
ChildExits ==
  /\ childState = "running"
  /\ childKind = "exits"
  /\ \A s \in Streams : script[s] = <<>>
  /\ childState' = "exited"
  /\ childExit' \in {0, 1}
  /\ UNCHANGED <<childKind, script, written, pipe, rdClosed, sbuf, current,
                 rdState, waitState, doneChan, sigChan, signals, forwarded,
                 exState, cmdErr, sink, exResult,
                 passthrough, echoed>>
  /\ UNCHANGED <<bvars, ivars, xvars>>

\* the child is terminated by a signal that was forwarded to it
ChildKilled ==
  /\ childState = "running"
  /\ forwarded # <<>>
  /\ childState' = "exited"
  /\ childExit' = -1
  /\ UNCHANGED <<childKind, script, written, pipe, rdClosed, sbuf, current,
                 rdState, waitState, doneChan, sigChan, signals, forwarded,
                 exState, cmdErr, sink, exResult,
                 passthrough, echoed>>
  /\ UNCHANGED <<bvars, ivars, xvars>>

\* done <- cmd.Wait(): once the child has exited, Wait closes the parent's
\* ends of the pipes made by StdoutPipe and StderrPipe and returns nil after
\* exit code 0 and an *exec.ExitError otherwise
WaitAndSend ==
  /\ waitState = "waiting"
  /\ childState = "exited"
  /\ rdClosed' = [s \in Streams |-> TRUE]
  /\ doneChan' = IF childExit = 0 THEN "nil" ELSE "ExitError"
  /\ waitState' = "sent"
  /\ UNCHANGED <<childKind, script, written, pipe, childState, childExit,
                 sbuf, current, rdState, sigChan, signals, forwarded,
                 exState, cmdErr, sink, exResult,
                 passthrough, echoed>>
  /\ UNCHANGED <<bvars, ivars, xvars>>

StreamRecordSwapped(s, e) ==
  [LogEntryOf(ParseLogEntry(mapping, Text(e), clock))
     EXCEPT !.Stream = CHOOSE o \in {"stdout", "stderr"} : o # s]

\* the record processStream makes of an entry and hands to the processor:
\* the parsed entry, tagged with the stream
StreamRecord(s, e) ==
  [LogEntryOf(ParseLogEntry(mapping, Text(e), clock)) EXCEPT !.Stream = s]

EchoAlways(s, e) == [echoed EXCEPT ![s] = @ \o e \o <<"\n">>]

\* fmt.Fprintln(output, logEntry) when passthrough is enabled for the stream
Echo(s, e) ==
  IF passthrough[s] THEN [echoed EXCEPT ![s] = @ \o e \o <<"\n">>] ELSE echoed

\* Config.Command and strings.Join(config.Command, " ")
Command == <<"sh", "-c", "run">>

RECURSIVE Join(_, _)
Join(elems, sep) ==
  IF elems = <<>> THEN <<>>
  ELSE IF Len(elems) = 1 THEN <<elems[1]>>
  ELSE <<elems[1], sep>> \o Join(Tail(elems), sep)

\* bufio.Scanner fills its buffer: a Read on the pipe returns some of the
\* lines that are in it
ReaderRead(s) ==
  /\ rdState[s] = "scanning"
  /\ sbuf[s] = <<>>
  /\ ~rdClosed[s]
  /\ pipe[s] # <<>>
  /\ \E k \in 1..Len(pipe[s]) :
       /\ sbuf' = [sbuf EXCEPT ![s] = SubSeq(pipe[s], 1, k)]
       /\ pipe' = [pipe EXCEPT ![s] = SubSeq(pipe[s], k + 1, Len(pipe[s]))]
  /\ UNCHANGED <<childKind, script, written, childState, childExit, rdClosed,
                 current, rdState, waitState, doneChan, sigChan, signals,
                 forwarded, exState, cmdErr, sink, exResult,
                 passthrough, echoed>>
  /\ UNCHANGED <<bvars, ivars, xvars>>

ReaderLineLastFirst(s) ==
  /\ rdState[s] = "scanning"
  /\ sbuf[s] # <<>>
  /\ LET step == LineStep(pattern, current[s], sbuf[s][Len(sbuf[s])])
     IN /\ current' = [current EXCEPT ![s] = step.cur]
        /\ echoed' = IF step.emit THEN Echo(s, current[s]) ELSE echoed
        /\ sink' = IF step.emit THEN Append(sink, StreamRecord(s, current[s]))
                   ELSE sink
  /\ sbuf' = [sbuf EXCEPT ![s] = SubSeq(@, 1, Len(@) - 1)]
  /\ UNCHANGED <<childKind, script, written, pipe, childState, childExit,
                 rdClosed, rdState, waitState, doneChan, sigChan, signals,
                 forwarded, exState, cmdErr, exResult, passthrough>>
  /\ UNCHANGED <<bvars, ivars, xvars>>

\* scanner.Scan() returns a buffered line: one pass through the iterator's
\* loop body, and through processStream's when an entry is yielded
ReaderLine(s) ==
  /\ rdState[s] = "scanning"
  /\ sbuf[s] # <<>>
  /\ LET step == LineStep(pattern, current[s], Head(sbuf[s]))
     IN /\ current' = [current EXCEPT ![s] = step.cur]
        /\ echoed' = IF step.emit THEN Echo(s, current[s]) ELSE echoed
        /\ sink' = IF step.emit THEN Append(sink, StreamRecord(s, current[s]))
                   ELSE sink
  /\ sbuf' = [sbuf EXCEPT ![s] = Tail(@)]
  /\ UNCHANGED <<childKind, script, written, pipe, childState, childExit,
                 rdClosed, rdState, waitState, doneChan, sigChan, signals,
                 forwarded, exState, cmdErr, exResult, passthrough>>
  /\ UNCHANGED <<bvars, ivars, xvars>>

\* scanner.Scan() returns false: the Read hit end of file (pipe empty and the
\* child gone) or failed because the read end was closed; the final entry is
\* yielded, the range loop ends and the deferred wg.Done() runs
ReaderEnd(s) ==
  /\ rdState[s] = "scanning"
  /\ sbuf[s] = <<>>
  /\ \/ rdClosed[s]
     \/ pipe[s] = <<>> /\ childState = "exited"
  /\ echoed' = IF Len(current[s]) > 0 THEN Echo(s, current[s]) ELSE echoed
  /\ sink' = IF Len(current[s]) > 0 THEN Append(sink, StreamRecord(s, current[s]))
             ELSE sink
  /\ rdState' = [rdState EXCEPT ![s] = "done"]
  /\ UNCHANGED <<childKind, script, written, pipe, childState, childExit,
                 rdClosed, sbuf, current, waitState, doneChan, sigChan, signals,
                 forwarded, exState, cmdErr, exResult, passthrough>>
  /\ UNCHANGED <<bvars, ivars, xvars>>

\* SIGINT or SIGTERM reaches the host while executeCommand runs:
\* signal.Notify puts it into sigChan unless the channel (capacity 1) is full
HostSignal ==
  /\ Len(signals) < MaxSignals
  /\ exState # "returned"
  /\ signals' = Append(signals, childState)
  /\ IF sigChan = "empty" THEN sigChan' \in {"SIGINT", "SIGTERM"}
     ELSE UNCHANGED sigChan
  /\ UNCHANGED <<childKind, script, written, pipe, childState, childExit,
                 rdClosed, sbuf, current, rdState, waitState, doneChan, forwarded,
                 exState, cmdErr, sink, exResult,
                 passthrough, echoed>>
  /\ UNCHANGED <<bvars, ivars, xvars>>

SelectSignalNoAwait ==
  /\ exState = "select"
  /\ sigChan # "empty"
  /\ forwarded' = Append(forwarded, sigChan)
  /\ sigChan' = "empty"
  /\ exState' = "wg wait"
  /\ UNCHANGED <<childKind, script, written, pipe, childState, childExit,
                 rdClosed, sbuf, current, rdState, waitState, doneChan, signals,
                 cmdErr, sink, exResult,
                 passthrough, echoed>>
  /\ UNCHANGED <<bvars, ivars, xvars>>

\* select, case sig := <-sigChan: forward the signal, then cmdErr = <-done
SelectSignal ==
  /\ exState = "select"
  /\ sigChan # "empty"
  /\ forwarded' = Append(forwarded, sigChan)
  /\ sigChan' = "empty"
  /\ exState' = "await done"
  /\ UNCHANGED <<childKind, script, written, pipe, childState, childExit,
                 rdClosed, sbuf, current, rdState, waitState, doneChan, signals,
                 cmdErr, sink, exResult,
                 passthrough, echoed>>
  /\ UNCHANGED <<bvars, ivars, xvars>>

\* select, case cmdErr = <-done; or the receive after a forwarded signal
ReceiveDone ==
  /\ exState \in {"select", "await done"}
  /\ doneChan # "empty"
  /\ cmdErr' = doneChan
  /\ doneChan' = "empty"
  /\ exState' = "wg wait"
  /\ UNCHANGED <<childKind, script, written, pipe, childState, childExit,
                 rdClosed, sbuf, current, rdState, waitState, sigChan, signals,
                 forwarded, sink, exResult,
                 passthrough, echoed>>
  /\ UNCHANGED <<bvars, ivars, xvars>>

WgWaitSkipped ==
  /\ exState = "wg wait"
  /\ exState' = "exit record"
  /\ UNCHANGED <<childKind, script, written, pipe, childState, childExit,
                 rdClosed, sbuf, current, rdState, waitState, doneChan, sigChan,
                 signals, forwarded, cmdErr, sink, exResult,
                 passthrough, echoed>>
  /\ UNCHANGED <<bvars, ivars, xvars>>

\* wg.Wait(): returns when both processStream goroutines have called Done
WgWait ==
  /\ exState = "wg wait"
  /\ \A s \in Streams : rdState[s] = "done"
  /\ exState' = "exit record"
  /\ UNCHANGED <<childKind, script, written, pipe, childState, childExit,
                 rdClosed, sbuf, current, rdState, waitState, doneChan, sigChan,
                 signals, forwarded, cmdErr, sink, exResult,
                 passthrough, echoed>>
  /\ UNCHANGED <<bvars, ivars, xvars>>

\* exitCode: 0 unless cmdErr is an *exec.ExitError
ExitCode == IF cmdErr = "ExitError" THEN childExit ELSE 0

ExitEntryNoCode ==
  [Timestamp |-> clock,
   Level |-> "info",
   Message |-> Text(<<"Command completed with exit code ", ToString(0)>>),
   Fields |-> [command |-> Join(Command, " "), exit_code |-> 0,
               exit_status |-> cmdErr # "nil"],
   Raw |-> Text(<<"Command exit: ", ToString(0)>>),
   Stream |-> "system"]

\* exitEntry, the record of the command's completion
ExitEntry ==
  [Timestamp |-> clock,
   Level |-> "info",
   Message |-> Text(<<"Command completed with exit code ", ToString(ExitCode)>>),
   Fields |-> [command |-> Join(Command, " "), exit_code |-> ExitCode,
               exit_status |-> cmdErr # "nil"],
   Raw |-> Text(<<"Command exit: ", ToString(ExitCode)>>),
   Stream |-> "system"]

ExitRecordAndReturnNil ==
  /\ exState = "exit record"
  /\ sink' = Append(sink, ExitEntry)
  /\ exResult' = "nil"
  /\ exState' = "returned"
  /\ UNCHANGED <<childKind, script, written, pipe, childState, childExit,
                 rdClosed, sbuf, current, rdState, waitState, doneChan, sigChan,
                 signals, forwarded, cmdErr,
                 passthrough, echoed>>
  /\ UNCHANGED <<bvars, ivars, xvars>>

\* the exit record is handed to the processor and executeCommand returns an
\* error when cmdErr != nil && exitCode != 0
ExitRecordAndReturn ==
  /\ exState = "exit record"
  /\ sink' = Append(sink, ExitEntry)
  /\ exResult' = IF cmdErr # "nil" /\ ExitCode # 0 THEN "error" ELSE "nil"
  /\ exState' = "returned"
  /\ UNCHANGED <<childKind, script, written, pipe, childState, childExit,
                 rdClosed, sbuf, current, rdState, waitState, doneChan, sigChan,
                 signals, forwarded, cmdErr,
                 passthrough, echoed>>
  /\ UNCHANGED <<bvars, ivars, xvars>>

\* ----------------------------------------------------------- specifications
\* the goroutines that call the batcher and the number of calls each makes
Quota(main, producer) ==
  [p \in Procs |-> IF p = "main" THEN main
                   ELSE IF p \in Producers THEN producer ELSE 0]

SpecSingleInit ==
  \E m \in 1..MaxBatchSize : \E f \in {"never", "always", "sometimes"} :
       NewLogBatcher(m, FALSE, f, Quota(MaxCalls, 0)) /\ NoIterator /\ NoExtractor /\ NoCommand

SpecSingleNext ==
  \/ CallAdd("main")
  \/ CallFlush("main")
  \/ CallClose("main")
  \/ AppendRead("main")
  \/ AppendStore("main")
  \/ AppendHdr("main")
  \/ AddCheck("main")
  \/ FlushCheck("main")
  \/ FlushMake("main")
  \/ FlushCopy("main")
  \/ FlushReset("main")
  \/ FlushCall("main")
  \/ FlushReturn("main")

\* one goroutine uses the batcher, the timer is disabled
SpecSingle == SpecSingleInit /\ [][SpecSingleNext]_vars

SpecConcInit ==
  \E m \in 1..MaxBatchSize :
     NewLogBatcher(m, FALSE, "never", Quota(1, MaxAddsPerProducer))
     /\ NoIterator /\ NoExtractor /\ NoCommand

SpecConcNext ==
  \/ \E p \in Producers : AddStep(p) \/ FlushStep(p) \/ ProducerDone(p)
  \/ JoinAndFlush
  \/ FlushStep("main")

\* several producers call Add concurrently, the timer is disabled, and the
\* caller flushes once after all of them have finished
SpecConc == SpecConcInit /\ [][SpecConcNext]_vars

SpecTickInit ==
  \E m \in 1..MaxBatchSize :
     NewLogBatcher(m, TRUE, "never", Quota(MaxCalls - 2, 0)) /\ NoIterator /\ NoExtractor /\ NoCommand

SpecTickNext ==
  \/ AddStep("main")
  \/ FlushStep("main")
  \/ TimerFire
  \/ LoopTick
  \/ FlushStep("tick")

\* one producer calls Add while the flushLoop goroutine handles timer ticks
SpecTick == SpecTickInit /\ [][SpecTickNext]_vars

\* a step of a call of Add that has begun, or of the flush it triggers
CallProgress(p) ==
  \/ AppendRead(p)
  \/ AppendStore(p)
  \/ AppendHdr(p)
  \/ AddCheck(p)
  \/ FlushStep(p)

\* the same, with the ticker firing as long as it is not stopped and both
\* goroutines scheduled fairly; the producer need not call Add again
SpecTickFair ==
  /\ SpecTick
  /\ WF_vars(TimerFire)
  /\ WF_vars(LoopTick)
  /\ WF_vars(FlushStep("tick"))
  /\ WF_vars(CallProgress("main"))

\* a caller that makes calls API calls, with or without the timer, and a
\* flushFunc that behaves in one of the given ways
CallerAndTimer(calls, flushFuncs) ==
  \E m \in 1..MaxBatchSize : \E timer \in BOOLEAN :
     \E f \in flushFuncs :
       NewLogBatcher(m, timer, f, Quota(calls, 0))
       /\ NoIterator /\ NoExtractor /\ NoCommand

SpecCloseInit == CallerAndTimer(MaxCalls - 1, {"never"})

\* the flushLoop goroutine is not inside a flush
TickIdle == pc["tick"] \in {"loop", "exited", "none", "panicked"}

SpecCloseNext ==
  \/ TickIdle /\ CallAdd("main")
  \/ TickIdle /\ CallFlush("main")
  \/ CallProgress("main")
  \/ CloseStep("main")
  \/ TimerFire
  \/ (pc["main"] = "idle" \/ op["main"] = "Close") /\ LoopTick
  \/ LoopDone
  \/ FlushStep("tick")

\* one caller uses Add, Flush and Close, with or without the timer; Close
\* may be called while the flushLoop goroutine handles a tick, and a tick
\* may be taken while Close runs, but no call of Add or Flush overlaps the
\* handling of a tick
SpecClose == SpecCloseInit /\ [][SpecCloseNext]_vars

SpecSerialNext ==
  \/ TickIdle /\ CallAdd("main")
  \/ TickIdle /\ CallFlush("main")
  \/ TickIdle /\ CallClose("main")
  \/ AppendRead("main")
  \/ AppendStore("main")
  \/ AppendHdr("main")
  \/ AddCheck("main")
  \/ CloseStop("main")
  \/ CloseDone("main")
  \/ FlushStep("main")
  \/ TimerFire
  \/ pc["main"] = "idle" /\ LoopTick
  \/ LoopDone
  \/ FlushStep("tick")

\* goroutine p is inside the callback flushFunc
InFlushFunc(p) == pc[p] = "flush_func"

SpecOwnerNext ==
  \/ (TickIdle \/ InFlushFunc("tick")) /\ CallAdd("main")
  \/ CallProgress("main")
  \/ TimerFire
  \/ (pc["main"] = "idle" \/ InFlushFunc("main")) /\ LoopTick
  \/ FlushStep("tick")

\* one producer and the timer, where a call of Add or the handling of a tick
\* begins while the other goroutine is idle or inside flushFunc: records are
\* added while a callback runs, but nothing overlaps the copy and reset of a
\* flush
SpecOwner == SpecTickInit /\ [][SpecOwnerNext]_vars

SpecSerialInit == CallerAndTimer(MaxCalls - 1, {"never", "always"})

\* the same caller and timer, scheduled so that no two operations (a call
\* of Add, Flush or Close, the handling of a tick) overlap in time
SpecSerial == SpecSerialInit /\ [][SpecSerialNext]_vars

SpecIterInit ==
  /\ NewIterator({"^[ \\t]", "^a", "("}, {-1, 1, 2})
  /\ NoBatcher /\ NoExtractor /\ NoCommand

SpecIterNext ==
  \/ CompilePattern
  \/ ScanLine
  \/ ScanEnd
  \/ LoopReturn

\* one stream is reassembled and consumed
SpecIter == SpecIterInit /\ [][SpecIterNext]_vars


SpecParseInit ==
  /\ NewJSONExtractor
  /\ NoBatcher /\ NoIterator /\ NoCommand

SpecParseNext ==
  \/ Parse
  \/ ClockTick

\* entries are parsed by one extractor
SpecParse == SpecParseInit /\ [][SpecParseNext]_vars


SpecExecInit ==
  /\ StartCommand
  /\ NoBatcher /\ NoIterator /\ NoExtractor

SpecExecNext ==
  \/ \E s \in Streams : ChildWrite(s) \/ ReaderRead(s) \/ ReaderLine(s)
                        \/ ReaderEnd(s)
  \/ ChildExits
  \/ ChildKilled
  \/ WaitAndSend
  \/ HostSignal
  \/ SelectSignal
  \/ ReceiveDone
  \/ WgWait
  \/ ExitRecordAndReturn

\* a command is wrapped: the child, the goroutine in cmd.Wait(), the two
\* processStream goroutines and executeCommand run concurrently
SpecExec == SpecExecInit /\ [][SpecExecNext]_vars

\* the same, with every goroutine of the host scheduled fairly and a child
\* that writes and exits as its script says; a child that runs until it is
\* signalled may ignore the signal, and no signal need ever arrive
SpecExecFair ==
  /\ SpecExec
  /\ \A s \in Streams : /\ WF_vars(ChildWrite(s))
                        /\ WF_vars(ReaderRead(s))
                        /\ WF_vars(ReaderLine(s))
                        /\ WF_vars(ReaderEnd(s))
  /\ WF_vars(ChildExits)
  /\ WF_vars(WaitAndSend)
  /\ WF_vars(SelectSignal)
  /\ WF_vars(ReceiveDone)
  /\ WF_vars(WgWait)
  /\ WF_vars(ExitRecordAndReturn)

\* stdin mode reads with the default continuation pattern and processLogs
\* ranges over the whole sequence
SpecRunInit ==
  \/ /\ NewIterator({"^[ \\t]"}, {-1})
     /\ NoBatcher /\ NoExtractor /\ NoCommand
  \/ SpecExecInit

SpecRunNext == SpecIterNext \/ SpecExecNext

\* runCommand: the logs are read from stdin, or a command is wrapped
SpecRun == SpecRunInit /\ [][SpecRunNext]_vars

\* ------------------------------------------- single caller, timer disabled
OnlyAdds == \A i \in 1..Len(ops) : ops[i] = "Add"

\* C1: batch-threshold law. On a fresh batcher with a single caller and no
\* timer, while fewer than maxSize Add calls have been made flushFunc has not
\* been invoked; the maxSize-th Add itself invokes it, exactly once, with the
\* maxSize records added, and leaves the buffer empty.
BatchThresholdLaw ==
  OnlyAdds =>
    /\ Len(ops) < maxSize => sent = <<>>
    /\ Len(ops) = maxSize => Len(sent) <= 1
    /\ (Len(ops) = maxSize /\ pc["main"] = "idle") =>
         /\ Len(sent) = 1
         /\ sent[1].batch = added
         /\ Len(sent[1].batch) = maxSize
         /\ sent[1].op = "Add" /\ sent[1].call = maxSize
         /\ blen = 0

\* maxSize = 2: the second Add has returned and has flushed
BatchThresholdReached ==
  /\ OnlyAdds /\ maxSize = 2 /\ Len(ops) = 2 /\ pc["main"] = "idle"
  /\ Len(sent) = 1

\* C8: single caller, no timer. After a sequence of Add and Flush calls that
\* ends with a Flush, the batches handed to flushFunc, concatenated in
\* invocation order, are the records handed to Add in call order; n Adds
\* followed by one Flush give ceil(n / maxSize) batches.
OrderedExactlyOnce ==
  ( /\ pc["main"] = "idle" /\ ops # <<>> /\ ops[Len(ops)] = "Flush"
    /\ \A i \in 1..Len(ops) : ops[i] \in {"Add", "Flush"} ) =>
    /\ Flatten(sent) = added
    /\ (\A i \in 1..(Len(ops) - 1) : ops[i] = "Add") =>
         Len(sent) = (Len(ops) - 1 + maxSize - 1) \div maxSize

\* three Adds and a Flush with maxSize = 2: a full batch and a partial one
OrderedTwoBatches ==
  /\ pc["main"] = "idle" /\ maxSize = 2
  /\ ops = <<"Add", "Add", "Add", "Flush">>
  /\ Len(sent) = 2 /\ Len(sent[2].batch) = 1

\* C9: the call that triggered a failing flushFunc returns that error; the
\* failed batch is not put back and not retried: the buffer is empty right
\* after the failed flush, later batches hold only records added later, and
\* the buffer never holds a record of a batch already handed over.
FlushErrorReturned ==
  /\ (pc["main"] = "idle" /\ ops # <<>>) =>
       (ret["main"] = "err" <=>
          \E i \in 1..Len(sent) : sent[i].call = Len(ops) /\ ~sent[i].ok)
  /\ (pc["main"] = "idle" /\ ret["main"] = "err") => blen = 0
  /\ \A i \in 1..Len(sent) : \A j \in 1..Len(sent) :
       (i < j /\ ~sent[i].ok) =>
          \A x \in 1..Len(sent[i].batch) : \A y \in 1..Len(sent[j].batch) :
             sent[i].batch[x] < sent[j].batch[y]
  /\ \A i \in 1..Len(sent) : \A x \in 1..Len(sent[i].batch) :
       \A k \in 1..blen : arr[k] # sent[i].batch[x]

\* a flush failed, its caller got the error, and a later batch was sent
FlushErrorThenFreshBatch ==
  /\ pc["main"] = "idle" /\ Len(sent) >= 2
  /\ ~sent[1].ok /\ sent[2].ok
  /\ \E i \in 1..Len(ops) : ops[i] = "Close"

\* ------------------------------------------------ concurrent use of Add
\* number of times record r occurs in sequence q
Occurrences(r, q) == Cardinality({i \in 1..Len(q) : q[i] = r})

\* the records currently in the buffer
Buffered == [i \in 1..blen |-> arr[i]]

\* C2: concurrent producers, timer disabled, one Flush after all producers
\* have finished: the records handed to flushFunc over all batches are the
\* records handed to Add, each exactly once.
ConcurrentAddsAllDelivered ==
  ( /\ \A p \in Producers : pc[p] = "done"
    /\ pc["main"] = "idle" /\ callsLeft["main"] = 0 ) =>
    /\ Len(Flatten(sent)) = Len(added)
    /\ \A r \in 1..Len(added) : Occurrences(r, Flatten(sent)) = 1

\* C3: a timer tick that overlaps an Add leaves every added record in exactly
\* one place: in one batch handed to flushFunc or in the buffer.
TickSerializable ==
  (pc["main"] = "idle" /\ pc["tick"] = "loop") =>
    \A r \in 1..Len(added) : Occurrences(r, Flatten(sent) \o Buffered) = 1

\* ------------------------------------------------- properties of reassembly
RECURSIVE Fold(_, _, _, _)
\* the entries of the fold over lines, with open the entry in progress
Fold(pat, lines, open, isOpen) ==
  IF lines = <<>> THEN (IF isOpen THEN <<open>> ELSE <<>>)
  ELSE LET l == Head(lines)
           rest == Tail(lines)
       IN IF l = <<>> THEN Fold(pat, rest, open, isOpen)
          ELSE IF ~Matches(pat, l)
               THEN (IF isOpen THEN <<open>> ELSE <<>>) \o Fold(pat, rest, l, TRUE)
               ELSE IF isOpen
                    THEN Fold(pat, rest, open \o <<"\n">> \o l, TRUE)
                    ELSE Fold(pat, rest, open, FALSE)

ReadFailurePropagated ==
  (scanErr /\ stopAfter = -1 /\ plResult # "running") => plResult # "nil"


\* the entries of the fold that a later entry-start line has closed
Closed(pat, lines) ==
  LET f == Fold(pat, lines, <<>>, FALSE)
  IN IF f = <<>> THEN <<>> ELSE SubSeq(f, 1, Len(f) - 1)

\* C11: when the line source fails, the entry in progress is discarded: the
\* consumer has received only the entries that an entry-start line closed
\* before the failure.
InProgressDiscardedOnFailure ==
  (scanErr /\ itState = "returned" /\ stopAfter = -1) =>
    yielded = Closed(pattern, SubSeq(input, 1, failAt))

\* the index of the first entry-start line of the input, or Len(input) + 1
FirstStart(pat, lines) ==
  LET S == {i \in 1..Len(lines) : isLogEntryStart(pat, lines[i])}
  IN IF S = {} THEN Len(lines) + 1 ELSE CHOOSE i \in S : \A j \in S : i <= j

\* C12: continuation lines read before any entry-start line are dropped:
\* while no entry-start line has been read nothing is open and nothing is
\* yielded, the first entry begins with the first entry-start line, and a
\* fully consumed input yields what its part from that line on yields.
OrphansDropped ==
  LET k == FirstStart(pattern, input)
  IN /\ scanned < k => (currentEntry = <<>> /\ yielded = <<>>)
     /\ yielded # <<>> =>
          SubSeq(yielded[1], 1, Len(input[k])) = input[k]
     /\ (itState = "returned" /\ failAt = -1 /\ stopAfter = -1) =>
          yielded = Fold(pattern, SubSeq(input, k, Len(input)), <<>>, FALSE)

\* two orphan continuations, then an entry-start line, consumed to the end
OrphansThenEntry ==
  /\ itState = "returned" /\ failAt = -1 /\ stopAfter = -1
  /\ pattern = "^[ \\t]"
  /\ input = << <<" ", "a">>, <<" ">>, <<"a">> >>
  /\ yielded = << <<"a">> >>


NonEmpty(line) == line # <<>>

\* C13: an empty line has no effect on the reassembler: reading it leaves the
\* open entry and the entries yielded as they were and ends nothing, so a
\* fully consumed input yields what the input without its empty lines yields.
EmptyLineNoEffect ==
  /\ [][(itState = "scanning" /\ scanned' = scanned + 1
           /\ input[scanned + 1] = <<>>) =>
          (currentEntry' = currentEntry /\ yielded' = yielded
             /\ itState' = "scanning")]_vars
  /\ []((itState = "returned" /\ failAt = -1 /\ stopAfter = -1) =>
          yielded = Fold(pattern, SelectSeq(input, NonEmpty), <<>>, FALSE))

\* an empty line between an entry-start line and its continuation
ContinuationAfterEmptyLine ==
  /\ itState = "returned" /\ failAt = -1 /\ stopAfter = -1
  /\ pattern = "^[ \\t]"
  /\ input = << <<"a">>, <<>>, <<" ">> >>
  /\ yielded = << <<"a", "\n", " ">> >>

\* C14: a consumer that stops after N entries has received exactly the first
\* N entries that full consumption of the same input yields (all of them when
\* there are fewer than N), in the same order and with the same content.
PrefixLaw ==
  (itState = "returned" /\ failAt = -1 /\ stopAfter # -1) =>
    LET full == Fold(pattern, input, <<>>, FALSE)
    IN yielded = SubSeq(full, 1, IF stopAfter < Len(full) THEN stopAfter
                                 ELSE Len(full))

\* the consumer stopped after two of three entries
StoppedAfterTwoOfThree ==
  /\ itState = "returned" /\ failAt = -1 /\ stopAfter = 2
  /\ Len(Fold(pattern, input, <<>>, FALSE)) = 3
  /\ Len(yielded) = 2

\* C15: once the consumer has abandoned the sequence (yield returned false)
\* the producer has returned: it yields no further entry and reads no further
\* line, whatever is left of the input.
ProducerStopsAfterAbandon ==
  /\ []((stopAfter # -1 /\ Len(yielded) >= stopAfter) =>
          (itState = "returned" /\ Len(yielded) = stopAfter))
  /\ [][itState = "returned" =>
          (yielded' = yielded /\ scanned' = scanned
             /\ currentEntry' = currentEntry /\ itState' = "returned")]_vars

\* the consumer stopped after the first entry with lines left unread, and
\* processLogs has returned
AbandonedWithLinesUnread ==
  /\ stopAfter = 1 /\ Len(yielded) = 1
  /\ scanned < Len(input)
  /\ plResult = "nil"


\* --------------------------------------------------- properties of extraction
\* the candidate payload of the entry is a JSON object
Structured == JSONKind(ExtractJSON(prefixRegex, entry).text) = "object"

\* the indexes of the keys of a list that are present in the object
Present(keys, obj) == {i \in 1..Len(keys) : obj[keys[i]] # Absent}

Min(S) == CHOOSE i \in S : \A j \in S : i <= j

\* the first present key of the list is consumed and every other present key
\* of the list is left in Fields
FirstPresentConsumed(keys) ==
  LET pres == Present(keys, entry.obj)
  IN pres # {} =>
       /\ record.Fields[keys[Min(pres)]] = Absent
       /\ \A j \in pres \ {Min(pres)} : record.Fields[keys[j]] # Absent

DisjointLists(m) ==
  \A i \in 1..Len(m.TimestampFields), j \in 1..Len(m.LevelFields),
     k \in 1..Len(m.MessageFields) :
       /\ m.TimestampFields[i] # m.LevelFields[j]
       /\ m.TimestampFields[i] # m.MessageFields[k]
       /\ m.LevelFields[j] # m.MessageFields[k]

Usable(keys, obj, types) == {i \in 1..Len(keys) : obj[keys[i]].t \in types}

\* the first usable key of the list is gone from the object, every other key
\* that was in the object before the list was walked is still there
FirstUsableConsumed(keys, before, after, types) ==
  LET use == Usable(keys, before, types)
  IN \A k \in Keys :
       after[k] = IF use # {} /\ k = keys[Min(use)] THEN Absent ELSE before[k]

ParseNeverFails ==
  parses > 0 =>
    /\ record.err = "nil"
    /\ DOMAIN record =
         {"Timestamp", "Level", "Message", "Fields", "Raw", "Stream", "err"}

\* a truncated object was parsed with empty key lists
MalformedParsedWithEmptyLists ==
  /\ parses > 0
  /\ entry.text = <<"{\"a\":">>
  /\ mapping.MessageFields = <<>>
  /\ record.err = "nil"
  /\ record.Message = entry

\* C17: on the structured path and on the fallback path alike, Raw is the
\* entry that was passed to ParseLogEntry, unchanged by prefix stripping,
\* trimming and key consumption.
RawIsEntry ==
  parses > 0 => record.Raw = entry

\* an object behind a timestamp prefix and white space: the payload and the
\* trimmed text both differ from the entry, a key was consumed
RawKeptBehindPrefix ==
  /\ parses > 0
  /\ entry.text = <<TimestampPiece, "{..}", " ">>
  /\ prefixRegex = DefaultPrefix
  /\ ExtractJSON(prefixRegex, entry) # entry
  /\ TrimSpace(entry) # entry
  /\ record.Message = Lit("yo")
  /\ record.Fields["msg"] = Absent
  /\ record.Raw = entry

\* C18: when the candidate payload is not a JSON object, the record is the
\* fallback: Message is the trimmed original entry, Level is "info",
\* Timestamp is the current time, Fields is empty and Raw is the entry.
FallbackRecord ==
  (parses > 0 /\ ~Structured) =>
    /\ record.Message = TrimSpace(entry)
    /\ record.Level = "info"
    /\ record.Timestamp = parsedAt
    /\ record.Fields = NoObject
    /\ record.Raw = entry

\* C19: a payload that is valid JSON but not an object (array, string,
\* number, boolean, null) takes the fallback: Message is the trimmed
\* original entry and never the structured default "Log entry".
NonObjectJSONFallsBack ==
  (parses > 0 /\ JSONKind(ExtractJSON(prefixRegex, entry).text)
                   \in {"array", "string", "number", "bool", "null"}) =>
    /\ record.Message # Lit("Log entry")
    /\ record.Message = TrimSpace(entry)

\* the key of a list that the walk over the object consumes, if any
Consumed(keys, obj, types) ==
  LET use == Usable(keys, obj, types)
  IN IF use = {} THEN {} ELSE {keys[Min(use)]}

\* C20: after structured parsing Fields is the parsed object without the
\* keys consumed for timestamp, level and message, at most one per list:
\* no consumed key is in Fields and every other pair is, lower-priority
\* candidates that were not consumed included.
FieldsAreRemainder ==
  (parses > 0 /\ Structured) =>
    LET o0 == entry.obj
        tc == Consumed(mapping.TimestampFields, o0, {"string", "number"})
        o1 == [k \in Keys |-> IF k \in tc THEN Absent ELSE o0[k]]
        lc == Consumed(mapping.LevelFields, o1, {"string"})
        o2 == [k \in Keys |-> IF k \in lc THEN Absent ELSE o1[k]]
        mc == Consumed(mapping.MessageFields, o2, {"string"})
        gone == {k \in Keys : o0[k] # Absent /\ record.Fields[k] = Absent}
    IN /\ gone = tc \cup lc \cup mc
       /\ Cardinality(gone) <= 3
       /\ \A k \in Keys \ gone : record.Fields[k] = o0[k]

\* level and lvl are both strings: level was consumed, lvl stays in Fields
\* next to a key that is in no list
LowerPriorityKeyKept ==
  /\ parses > 0 /\ Structured
  /\ mapping.LevelFields = <<"level", "lvl">>
  /\ entry.obj["level"] = Str("warn") /\ entry.obj["lvl"] = Str("ERROR")
  /\ entry.obj["user"] = Str("u1")
  /\ record.Level = "warn"
  /\ record.Fields["level"] = Absent
  /\ record.Fields["lvl"] = Str("ERROR")
  /\ record.Fields["user"] = Str("u1")


\* C21: ExtractJSON returns the contents of the last capturing group when the
\* prefix pattern matches the entry and that group is not empty; it returns
\* the whole entry when the pattern does not match, has no capturing group,
\* or the last group is empty.
ExtractJSONLaw ==
  parses > 0 =>
    LET matches == FindStringSubmatch(prefixRegex, entry.text)
        groups == Len(matches) - 1
    IN /\ (matches # <<>> /\ groups >= 1 /\ matches[groups + 1] # <<>>) =>
            jsonStr = Sub(entry, matches[groups + 1])
       /\ matches = <<>> => jsonStr = entry
       /\ (matches # <<>> /\ groups = 0) => jsonStr = entry
       /\ (matches # <<>> /\ groups >= 1 /\ matches[groups + 1] = <<>>) =>
            jsonStr = entry

\* a timestamp prefix was stripped: the last group is the object, the first
\* group is the prefix
PrefixStripped ==
  /\ parses > 0
  /\ prefixRegex = DefaultPrefix
  /\ entry.text = <<TimestampPiece, " ", "{..}">>
  /\ FindStringSubmatch(prefixRegex, entry.text)[2] = <<TimestampPiece, " ">>
  /\ jsonStr.text = <<"{..}">>

\* C22: for a structured object with no key of the level list, Level is
\* "info"; with no key of the message list, Message is "Log entry"; and the
\* string value of a key that matches is used verbatim, in its own case.
DefaultsAndVerbatim ==
  (parses > 0 /\ Structured) =>
    LET o == entry.obj
        L == mapping.LevelFields
        G == mapping.MessageFields
    IN /\ Present(L, o) = {} => record.Level = "info"
       /\ Present(G, o) = {} => record.Message = Lit("Log entry")
       /\ DisjointLists(mapping) =>
            /\ \A i \in 1..Len(L) :
                 (o[L[i]].t = "string" /\ record.Fields[L[i]] = Absent) =>
                   record.Level = o[L[i]].v
            /\ \A i \in 1..Len(G) :
                 (o[G[i]].t = "string" /\ record.Fields[G[i]] = Absent) =>
                   record.Message = Lit(o[G[i]].v)

\* an upper-case level was taken as it is, and the message default applied
UpperCaseLevelKept ==
  /\ parses > 0 /\ Structured
  /\ mapping.LevelFields = <<"level", "lvl">>
  /\ entry.obj["level"] = Absent /\ entry.obj["lvl"] = Str("ERROR")
  /\ entry.obj["message"] = Absent /\ entry.obj["msg"] = Absent
  /\ record.Level = "ERROR"
  /\ record.Message = Lit("Log entry")

\* a timestamp key of the entry matched and its value was converted
TimestampMatchedAndParsed ==
  /\ Structured
  /\ LET tu == Usable(mapping.TimestampFields, entry.obj, {"string", "number"})
         tv == entry.obj[mapping.TimestampFields[Min(tu)]]
     IN /\ tu # {}
        /\ tv.t = "string" => parseTimestamp(tv.v).ok

\* C23: ParseLogEntry applied twice to the same entry with the same
\* configuration yields records equal in Level, Message, Fields, Raw and
\* Stream, and equal in Timestamp whenever a timestamp key matched and parsed.
Idempotent ==
  parses >= 2 =>
    /\ record.Level = previous.Level
    /\ record.Message = previous.Message
    /\ record.Fields = previous.Fields
    /\ record.Raw = previous.Raw
    /\ record.Stream = previous.Stream
    /\ TimestampMatchedAndParsed => record.Timestamp = previous.Timestamp


\* ------------------------------------------------ properties of stream capture
RECURSIVE RawOf(_, _)
\* the entries of stream s in the sink, in order
RawOf(s, q) ==
  IF q = <<>> THEN <<>>
  ELSE (IF q[1].Stream = s THEN <<q[1].Raw.text>> ELSE <<>>) \o RawOf(s, Tail(q))

\* C6: when executeCommand returns, every line the child wrote to stdout or
\* stderr before it exited has been reassembled and handed to the sink.
AllOutputProcessed ==
  exState = "returned" =>
    \A s \in Streams : RawOf(s, sink) = Fold(pattern, written[s], <<>>, FALSE)

\* C7: once the child is started, executeCommand does not get past wg.Wait()
\* (and so does not return) before both processStream goroutines have
\* finished, whether the child exited by itself or after a forwarded signal.
ReturnsAfterPipelines ==
  exState \in {"exit record", "returned"} =>
    \A s \in Streams : rdState[s] = "done"

\* executeCommand has returned after it forwarded a signal to a child that
\* had written to both streams
ReturnedAfterSignal ==
  /\ exState = "returned"
  /\ forwarded # <<>> /\ childExit = -1
  /\ \A s \in Streams : written[s] # <<>> /\ rdState[s] = "done"

\* the positions of the system records in the sink
SystemRecords == {i \in 1..Len(sink) : sink[i].Stream = "system"}

\* C24: a run of executeCommand that returns has handed exactly one record
\* with Stream "system" and Level "info" to the sink, with the child's exit
\* code, the command line and the exit-status flag; it is handed over when
\* both pipelines have finished, after every stdout and stderr record.
OneSystemRecordAtEnd ==
  exState # "none" =>
    /\ Cardinality(SystemRecords) = IF exState = "returned" THEN 1 ELSE 0
    /\ \A i \in SystemRecords :
         /\ i = Len(sink)
         /\ \A s \in Streams : rdState[s] = "done"
         /\ sink[i].Level = "info"
         /\ sink[i].Fields.exit_code = childExit
         /\ sink[i].Fields.command = <<"sh", " ", "-c", " ", "run">>
         /\ sink[i].Fields.exit_status = (childExit # 0)

\* the child wrote to both streams and exited with code 1: two stream
\* records, then the system record
SystemRecordAfterBothStreams ==
  /\ exState = "returned"
  /\ Len(sink) = 3
  /\ {sink[1].Stream, sink[2].Stream} = Streams
  /\ sink[3].Stream = "system" /\ sink[3].Fields.exit_code = 1

\* C25: the stream tag names the origin: a record made by the stdout
\* pipeline has Stream "stdout", one made by the stderr pipeline has Stream
\* "stderr", whatever the interleaving, and a record made in stdin mode has
\* an empty Stream.
StreamTagNamesOrigin ==
  /\ [][\A s \in Streams :
          ((sbuf'[s] # sbuf[s] \/ rdState'[s] # rdState[s])
             /\ Len(sink') = Len(sink) + 1) =>
            sink'[Len(sink')].Stream = s]_vars
  /\ [](itState # "none" => \A i \in 1..Len(sink) : sink[i].Stream = "")
  /\ [](exState # "none" =>
          \A i \in 1..Len(sink) :
            sink[i].Stream \in {"stdout", "stderr", "system"})

\* both pipelines have handed over a record, stderr's first
BothStreamsTagged ==
  /\ exState # "none"
  /\ Len(sink) >= 2
  /\ sink[1].Stream = "stderr" /\ sink[1].Raw.text = <<"a">>
  /\ sink[2].Stream = "stdout" /\ sink[2].Raw.text = <<"a", "a">>
  /\ written["stdout"] = << <<"a", "a">> >>

\* C26 as stated: a signal that reaches the host before the child has exited
\* is forwarded to the child: executeCommand does not return without having
\* forwarded it.
SignalBeforeExitForwarded ==
  (exState = "returned" /\ \E i \in 1..Len(signals) : signals[i] = "running")
    => forwarded # <<>>

\* C26 (amended): a signal that is pending while executeCommand waits in its
\* select and the child runs is the only case the select can take, and
\* taking it forwards that same signal; a signal the select does not get to
\* before the child's exit is reported may stay unforwarded. In every case
\* executeCommand goes on only after cmd.Wait has reported the child's exit
\* and returns only after both pipelines have finished.
SignalForwardedThenAwaited ==
  /\ []((sigChan # "empty" /\ exState = "select" /\ childState = "running") =>
          (ENABLED SelectSignal /\ ~ENABLED ReceiveDone))
  /\ [][forwarded' # forwarded =>
          (exState = "select" /\ sigChan # "empty"
             /\ forwarded' = Append(forwarded, sigChan)
             /\ exState' = "await done")]_vars
  /\ [](exState = "await done" => forwarded # <<>>)
  /\ [](exState \in {"wg wait", "exit record", "returned"} =>
          (childState = "exited" /\ waitState = "sent"))
  /\ [](exState = "returned" => \A s \in Streams : rdState[s] = "done")

\* SIGTERM was forwarded and executeCommand waits for the running child
SignalForwardedChildRunning ==
  /\ forwarded = <<"SIGTERM">>
  /\ exState = "await done"
  /\ childState = "running"

\* C27: after it forwarded a signal executeCommand returns within bounded
\* time, even if the child ignores the signal and never exits.
ReturnsAfterForwarding ==
  (forwarded # <<>>) ~> (exState = "returned")

\* C28: once the child is started, executeCommand returns an error exactly
\* when the exit code in the system record is not zero, and in both cases the
\* system record with that code is in the sink when it returns; the
\* pipelines have finished normally whatever the exit code.
ErrorIffNonZeroExit ==
  /\ exResult \in {"none", "running", "nil", "error"}
  /\ exResult \in {"nil", "error"} =>
       /\ sink # <<>>
       /\ sink[Len(sink)].Stream = "system"
       /\ sink[Len(sink)].Fields.exit_code = childExit
       /\ exResult = "error" <=> sink[Len(sink)].Fields.exit_code # 0
       /\ \A s \in Streams : rdState[s] = "done"

\* the child wrote a line and exited with code 1: its record and the system
\* record are in the sink and executeCommand returned an error
NonZeroExitReported ==
  /\ exResult = "error"
  /\ childExit = 1
  /\ Len(sink) = 2
  /\ sink[1].Stream = "stdout"
  /\ sink[2].Fields.exit_code = 1

RECURSIVE Printed(_)
\* what Fprintln writes for a sequence of entries
Printed(entries) ==
  IF entries = <<>> THEN <<>>
  ELSE Head(entries) \o <<"\n">> \o Printed(Tail(entries))

LinesConsumed(s) ==
  SubSeq(written[s], 1, Len(written[s]) - Len(pipe[s]) - Len(sbuf[s]))

\* C30: within one stream the records reach the sink in the order of their
\* first lines in the input: the stream's records, followed by the entry in
\* progress, are at every moment the entries of the lines read so far, in
\* input order, whatever the other pipeline does.
InStreamOrder ==
  exState # "none" =>
    \A s \in Streams :
      RawOf(s, sink)
        \o (IF rdState[s] = "scanning" /\ current[s] # <<>>
            THEN <<current[s]>> ELSE <<>>)
      = Fold(pattern, LinesConsumed(s), <<>>, FALSE)

\* stdout's two entries reached the sink in the order they were written
TwoEntriesInOrder ==
  /\ written["stdout"] = << <<"a">>, <<"a", "a">> >>
  /\ RawOf("stdout", sink) = << <<"a">>, <<"a", "a">> >>

\* ------------------------------------------------------------------- Close
\* the invocations of flushFunc made by the caller's API call number c
CallsOf(c) == {i \in 1..Len(sent) : sent[i].by = "main" /\ sent[i].call = c}

\* the calls of Close begun so far
Closes == {i \in 1..Len(ops) : ops[i] = "Close"}

\* the caller's first Close has returned and no other call was begun since
FirstCloseReturned ==
  /\ pc["main"] = "idle"
  /\ Cardinality(Closes) = 1
  /\ ops[Len(ops)] = "Close"

\* C31: with a single producer and no Add and no tick in flight, when Close
\* returns the timer is stopped, Close has invoked flushFunc at most once
\* (once when records were buffered) and returned that invocation's error,
\* the buffer is empty and every record added before Close has been handed
\* to flushFunc exactly once.
CloseFlushesOnce ==
  FirstCloseReturned =>
    /\ timerOn => (tickerStopped /\ doneClosed)
    /\ blen = 0
    /\ Cardinality(CallsOf(Len(ops))) <= 1
    /\ ret["main"] = IF \E i \in CallsOf(Len(ops)) : ~sent[i].ok
                     THEN "err" ELSE "nil"
    /\ \A r \in 1..Len(added) : Occurrences(r, Flatten(sent)) = 1

\* with the timer enabled and a failing flushFunc, Add then Close: Close
\* flushed the record and returned the error
CloseReturnedFlushError ==
  /\ FirstCloseReturned /\ timerOn /\ maxSize = 2
  /\ ops = <<"Add", "Close">>
  /\ Len(sent) = 1 /\ sent[1].op = "Close" /\ sent[1].batch = <<1>>
  /\ ret["main"] = "err"
\* ------------------------------------------------------------ timer flushes
\* Add has returned for record r
Accepted(r) == r <= Len(added) /\ (r < Len(added) \/ pc["main"] = "idle")

\* record r is in a batch that was handed to flushFunc
Delivered(r) == Occurrences(r, Flatten(sent)) > 0

\* C32: with the timer enabled and scheduled fairly, every record accepted by
\* Add is eventually passed to flushFunc, whether or not the size threshold is
\* reached and without any further call.
TimerDeliversEveryRecord ==
  \A r \in 1..(MaxCalls - 2) : Accepted(r) ~> Delivered(r)
\* ------------------------------------------------------------- empty flush
\* a flush that finds the buffer empty returns nil and does not invoke
\* flushFunc
EmptyFlushIsNoOp ==
  [][\A p \in {"main", "tick"} :
       (pc[p] = "flush_check" /\ blen = 0
          /\ pc'[p] \notin {pc[p], "panicked"}) =>
         (sent' = sent /\ ret'[p] = "nil" /\ pc'[p] \in {"idle", "loop"})]_vars

\* C33: a flush on an empty buffer, whether it comes from Flush, from Close
\* or from a timer tick, does not invoke flushFunc, so flushFunc is never
\* invoked with an empty batch.
NeverAnEmptyBatch ==
  \A i \in 1..Len(sent) : sent[i].batch # <<>>
\* ------------------------------------------------------- Close and the timer
\* a call of Close has returned
CloseReturned ==
  \E i \in Closes : i < Len(ops) \/ pc["main"] = "idle"

\* C34: once Close has returned the flushLoop goroutine does not invoke
\* flushFunc any more, and when a tick is being handled while Close is called
\* every record is still handed to flushFunc exactly once: none twice (by the
\* tick's flush and by Close's flush), none lost.
TimerQuietAfterClose ==
  /\ [][(CloseReturned /\ Len(sent') > Len(sent)) =>
          sent'[Len(sent')].by # "tick"]_vars
  /\ []((FirstCloseReturned /\ TickIdle) =>
          \A r \in 1..Len(added) : Occurrences(r, Flatten(sent)) = 1)
\* -------------------------------------------------------- ownership transfer
\* C35: flush hands the batch over before the callback runs. While flushFunc
\* runs the batch it was given is a copy that keeps its content, the buffer
\* has been reset (it holds only records added after the invocation), and a
\* record added while or after flushFunc runs is in the buffer or in a later
\* batch, never in the batch already handed over.
OwnershipBeforeCallback ==
  /\ \A p \in {"main", "tick"} :
       InFlushFunc(p) =>
         /\ BatchView(p) = LastCall(p).batch
         /\ LastCall(p).batch # <<>>
         /\ \A i \in 1..Len(LastCall(p).batch) :
              LastCall(p).batch[i] <= LastCall(p).after
         /\ \A k \in 1..blen : arr[k] > LastCall(p).after
  /\ (pc["main"] = "idle" /\ TickIdle) =>
       \A r \in 1..Len(added) : Occurrences(r, Flatten(sent) \o Buffered) = 1

\* the second record was added while the tick's flushFunc runs with the
\* first: it waits in the buffer for the next batch
AddedDuringCallback ==
  /\ InFlushFunc("tick") /\ pc["main"] = "idle"
  /\ LastCall("tick").batch = <<1>>
  /\ added = <<1, 2>>
  /\ Buffered = <<2>>
\* ------------------------------------------------------ unparseable timestamp
\* the keys of the level and message lists
OtherListKeys ==
  {mapping.LevelFields[i] : i \in 1..Len(mapping.LevelFields)}
    \cup {mapping.MessageFields[i] : i \in 1..Len(mapping.MessageFields)}

\* the timestamp key at index i of the list holds a string that no layout
\* parses; the call returned no error, set Timestamp to the current time,
\* consumed that key and left every later timestamp key to Fields (or to the
\* level and message lists)
BadTimestampConsumed(i) ==
  LET ks == mapping.TimestampFields
  IN (entry.obj[ks[i]].t = "string" /\ ~parseTimestamp(entry.obj[ks[i]].v).ok) =>
       /\ record.err = "nil"
       /\ record.Timestamp = parsedAt
       /\ record.Fields[ks[i]] = Absent
       /\ \A j \in (i + 1)..Len(ks) :
            ks[j] \notin OtherListKeys =>
              record.Fields[ks[j]] = entry.obj[ks[j]]

BufferBelowMaxSize ==
  /\ (pc["main"] = "idle" /\ TickIdle) => blen < maxSize
  /\ \A i \in 1..Len(sent) :
       /\ Len(sent[i].batch) >= 1
       /\ Len(sent[i].batch) <= maxSize

\* maxSize = 2: the second Add flushed a full batch, a tick flushed the
\* third record alone, and the buffer is empty
FullBatchThenTickBatch ==
  /\ pc["main"] = "idle" /\ TickIdle /\ maxSize = 2
  /\ ops = <<"Add", "Add", "Add">>
  /\ Len(sent) = 2
  /\ sent[1].op = "Add" /\ Len(sent[1].batch) = 2
  /\ sent[2].op = "tick" /\ Len(sent[2].batch) = 1
  /\ blen = 0

\* the positions of the entry-start lines among the first n lines read
StartsIn(n) ==
  {i \in 1..n : Len(input[i]) > 0 /\ isLogEntryStart(pattern, input[i])}

\* the k-th entry-start line read
NthStart(k) ==
  CHOOSE s \in StartsIn(scanned) :
    Cardinality({j \in StartsIn(scanned) : j <= s}) = k

\* C38: the iterator yields an entry only in the step that reads the next
\* entry-start line or in the step that finds the end of the input; while
\* the source is open, the entry of the most recent entry-start line is in
\* currentEntry and has not been yielded: the consumer has the entries of
\* all earlier entry-start lines and no other.
LatestEntryWithheld ==
  /\ [][Len(yielded') > Len(yielded) =>
          /\ Len(yielded') = Len(yielded) + 1
          /\ \/ /\ scanned' = scanned + 1
                /\ scanned' \in StartsIn(scanned')
             \/ /\ scanned' = scanned
                /\ scanned = Len(input) \/ scanned = failAt
                /\ itState' = "returned"]_vars
  /\ [](itState = "scanning" =>
          LET n == Cardinality(StartsIn(scanned))
          IN /\ Len(yielded) = IF n = 0 THEN 0 ELSE n - 1
             /\ n = 0 => currentEntry = <<>>
             /\ n > 0 => /\ Len(currentEntry) >= Len(input[NthStart(n)])
                         /\ SubSeq(currentEntry, 1, Len(input[NthStart(n)]))
                              = input[NthStart(n)]
             /\ \A k \in 1..Len(yielded) :
                  /\ Len(yielded[k]) >= Len(input[NthStart(k)])
                  /\ SubSeq(yielded[k], 1, Len(input[NthStart(k)]))
                       = input[NthStart(k)])

\* two entry-start lines are read and the source has more to deliver: the
\* first entry has reached the consumer, the second is withheld
SecondEntryWithheld ==
  /\ itState = "scanning" /\ scanned < Len(input) /\ scanned # failAt
  /\ Cardinality(StartsIn(scanned)) = 2
  /\ Len(yielded) = 1
  /\ currentEntry = input[scanned]
  /\ yielded[1] # currentEntry


\* C39: a signal that reaches the host while the child runs is forwarded,
\* also when an earlier signal has been forwarded and executeCommand waits
\* for the child's exit: executeCommand does not return with a signal left
\* in sigChan after a forward if a signal later than the first found the
\* child running.
LaterSignalForwarded ==
  (exState = "returned" /\ forwarded # <<>> /\ sigChan # "empty")
    => \A i \in 2..Len(signals) : signals[i] # "running"


\* C40: Close called again after a Close that returned, with no call in
\* between, does not fail, invokes flushFunc not at all and returns nil, with
\* the timer enabled and with it disabled.
SecondCloseIsNoOp ==
  (Len(ops) >= 2 /\ ops[Len(ops)] = "Close" /\ ops[Len(ops) - 1] = "Close") =>
    /\ pc["main"] # "panicked"
    /\ CallsOf(Len(ops)) = {}
    /\ pc["main"] = "idle" => ret["main"] = "nil"

====
